---- MODULE Spec2Model ----
(***************************************************************************)
(* Model of the opencode memory plugin: the capture and dedup pipeline     *)
(* (src/src/capture.ts), the content buffer (src/src/buffer.ts), the       *)
(* plugin hooks (src/index.ts, src/unnamed/part_000) and the todo          *)
(* reconciliation engine (src/src/todo-sync.ts).                           *)
(*                                                                         *)
(* Strings are sequences of character codes.  Maps are functions whose     *)
(* domain is the set of keys present.  Timers live in the host's timer     *)
(* queue `timers`; clearTimeout removes a timer from the queue and only     *)
(* queued timers fire.                                                     *)
(***************************************************************************)
EXTENDS Integers, Sequences, FiniteSets, TLC

\* ---------------------------------------------------------------- bounds
NumSessions == 2
MaxTimers == 2
MaxCalls == 2
MaxMessages == 2
MaxAdds == 6
MaxPasses == 2
MaxTasks == 3
MaxReqs == 1
MaxTime == 7

Sessions == 1..NumSessions
\* resolveSessionId's fallback bucket "unknown"
Unknown == 0
SessionKeys == Sessions \cup {Unknown}

\* ------------------------------------------------------------ map helpers
Has(m, k) == k \in DOMAIN m
MapSet(m, k, v) == [x \in (DOMAIN m) \cup {k} |-> IF x = k THEN v ELSE m[x]]
MapDelete(m, k) == [x \in (DOMAIN m) \ {k} |-> m[x]]
EmptyMap == [x \in {} |-> 0]

VARIABLES
  \* capture.ts
  capturedHashes,       \* Map<sessionId, Set<hash>>
  storeCalls,           \* remember() calls per <<session, content>> since the session's last deletion
  dropped,              \* <<session, content>> candidates the latest processEvent skipped as duplicates
  remembered,           \* contents the store persisted (a remember() call that succeeded)
  captureLog,           \* the latest processEvent call and the candidates seen per session life
  \* index.ts
  injectedSessions, sessionMeta, sessionTodos, sessionFilesTouched,
  sessionMessageCounts, idleTimers,
  \* host timer queue
  timers, nextTimer,
  \* system.transform calls suspended in `await buildInjection`
  transformCalls, nextCall,
  injections,           \* injections pushed per session since the session's last deletion
  directives,           \* remember() calls issued by chat.message
  savedBy,              \* idle timers whose callback issued a working-state save
  cancelledTimers,      \* idle timers cleared by a session.deleted handler
  deleted,              \* sessions deleted and not addressed by any hook call since
  \* buffer.ts
  items, bufTimer, batches, settled, addedAt, nextItem,
  \* todo-sync.ts
  sessionToPersistent,  \* Map<sessionId, idMap>, as a reference into idMaps
  idMaps,               \* the idMap objects: insertion-ordered lists of [k, v]
  syncTimers,           \* Map<sessionId, timer>
  ptodos,               \* the store's persistent tasks, indexed by their id
  passes,               \* syncTodos invocations suspended at a store call
  nextPass,
  lastDone,             \* the syncTodos invocation that returned last
  \* injection engine and store client
  healthy,              \* what isServiceHealthy() answered at plug-in start
  build,                \* the buildInjection call under way
  reqs,                 \* remote-store client calls
  lastCall,             \* the latest call of a helper on record: its input and what it returned
  compacting,           \* the experimental.session.compacting call under way
  \* wall clock of the idle-save debounce
  now,
  armedAt,              \* idle timer -> session and time of the idle event that armed it
  savedAt               \* idle timer -> time its callback issued the save

captureVars == <<capturedHashes, storeCalls, dropped, remembered, captureLog>>
sessionVars == <<injectedSessions, sessionMeta, sessionTodos, sessionFilesTouched,
                 sessionMessageCounts, idleTimers>>
timerVars == <<timers, nextTimer>>
transformVars == <<transformCalls, nextCall, injections>>
ghostVars == <<directives, savedBy, cancelledTimers, deleted>>
bufferVars == <<items, bufTimer, batches, settled, addedAt, nextItem>>

todoVars == <<sessionToPersistent, idMaps, syncTimers, ptodos, passes, nextPass, lastDone>>

engineVars == <<healthy, build, reqs, lastCall, compacting>>

clockVars == <<now, armedAt, savedAt>>

vars == <<captureVars, sessionVars, timerVars, transformVars, ghostVars, bufferVars, todoVars,
          engineVars, clockVars>>

\* ------------------------------------------------------------ contentHash
\* The int32 accumulator is kept as two 16-bit limbs <<hi, lo>>.
Limb == 65536

\* hash = ((hash << 5) - hash + code) | 0, i.e. 31*hash + code modulo 2^32
HashStep(h, code) ==
  LET lo == 31 * h[2] + code
      hi == 31 * h[1] + (lo \div Limb)
  IN <<hi % Limb, lo % Limb>>

RECURSIVE HashFrom(_, _, _)
HashFrom(h, text, i) ==
  IF i > Len(text) THEN h ELSE HashFrom(HashStep(h, text[i]), text, i + 1)

IsNegative32(h) == h[1] >= 32768

\* magnitude of the int32 value: two's complement negation when negative
Magnitude32(h) ==
  IF IsNegative32(h)
  THEN LET lo == (Limb - 1 - h[2]) + 1
           hi == (Limb - 1 - h[1]) + (lo \div Limb)
       IN <<hi % Limb, lo % Limb>>
  ELSE h

\* Number.prototype.toString(36) digits of a magnitude, most significant first
RECURSIVE Digits36(_)
Digits36(m) ==
  IF m[1] = 0 /\ m[2] < 36 THEN <<m[2]>>
  ELSE LET qhi == m[1] \div 36
           r   == (m[1] % 36) * Limb + m[2]
       IN Append(Digits36(<<qhi, r \div 36>>), r % 36)

\* the sign is rendered as the digit -1
contentHash(text) ==
  LET h == HashFrom(<<0, 0>>, text, 1)
  IN IF IsNegative32(h) THEN <<-1>> \o Digits36(Magnitude32(h)) ELSE Digits36(h)

\* ------------------------------------------------------------ capture.ts
\* "Aa" and "BB" have the same hash; "zzzzzzz" overflows 32 bits
Contents == { <<65, 97>>, <<66, 66>>, <<122, 122, 122, 122, 122, 122, 122>> }
\* the candidates of one event: one content, the same content twice, the
\* two colliding contents in either order, or two contents that both survive
MemoryLists ==
  { <<c>> : c \in Contents } \cup { <<c, c>> : c \in Contents }
    \cup { <<<<65, 97>>, <<66, 66>>>>, <<<<66, 66>>, <<65, 97>>>> }
    \cup { <<<<65, 97>>, <<122, 122, 122, 122, 122, 122, 122>>>> }

\* contentHash over the contents in play, computed once
HashOf == [c \in Contents |-> contentHash(c)]

IsDuplicateNever(hashes, content) == FALSE

\* isDuplicate, line 59
IsDuplicate(hashes, content) == HashOf[content] \in hashes

HashesAfterForget(hashes, content) == hashes

\* isDuplicate, line 60: the hash is recorded before the store call is issued
HashesAfter(hashes, content) == hashes \cup {HashOf[content]}

AfterCallAwaited(outcome) == IF outcome = "failed" THEN "throw" ELSE "continue"

\* lines 229-234: remember(...).catch(() => {}) is not awaited, so the loop
\* goes on whatever becomes of the call
AfterCall(outcome) == "continue"

\* processEvent's loop over the candidates of one event, for session key k:
\* st = [hashes, calls, dropped, sent, log, promise, late]; `ok` are the
\* contents whose store call succeeds, `seen` the candidates of earlier events
RECURSIVE ProcessLoop(_, _, _, _, _, _)
ProcessLoop(st, k, memories, i, ok, seen) ==
  IF i > Len(memories) THEN st
  ELSE LET c == memories[i]
           outcome == IF c \in ok THEN "ok" ELSE "failed"
       IN IF IsDuplicate(st.hashes, c)
          THEN ProcessLoop([st EXCEPT !.dropped = @ \cup {<<k, c>>}], k, memories, i + 1,
                           ok, seen)
          ELSE LET issued == [st EXCEPT !.hashes = HashesAfter(@, c),
                                        !.calls = [@ EXCEPT ![<<k, c>>] = @ + 1],
                                        !.sent = @ \cup {c},
                                        !.log = Append(@, [content |-> c, outcome |-> outcome]),
                                        !.late = IF <<k, c>> \in seen
                                                 THEN @ \cup {<<k, c>>} ELSE @]
               IN IF AfterCall(outcome) = "throw"
                  THEN [issued EXCEPT !.promise = "rejected"]
                  ELSE ProcessLoop(issued, k, memories, i + 1, ok, seen)

LedgerOfAny(k) == UNION { capturedHashes[x] : x \in DOMAIN capturedHashes }

\* isDuplicate, lines 54-57: the Set kept for this session id, created empty
\* when the id is new
LedgerOf(k) == IF Has(capturedHashes, k) THEN capturedHashes[k] ELSE {}

\* processEvent(event, projectId) for an event whose candidates are `memories`
\* and whose session id resolves to k; `ok` are the store calls that succeed.
processEvent(k, memories, ok) ==
  IF Len(memories) = 0
  THEN UNCHANGED captureVars
  ELSE LET start == [hashes |-> LedgerOf(k),
                     calls |-> storeCalls, dropped |-> {}, sent |-> {},
                     log |-> <<>>, promise |-> "resolved", late |-> captureLog.late]
           end == ProcessLoop(start, k, memories, 1, ok, captureLog.seen)
       IN /\ capturedHashes' = MapSet(capturedHashes, k, end.hashes)
          /\ storeCalls' = end.calls
          /\ dropped' = end.dropped
          /\ remembered' = remembered \cup (end.sent \cap ok)
          /\ captureLog' =
               [seen |-> captureLog.seen
                           \cup { <<k, memories[i]>> : i \in 1..Len(memories) },
                late |-> end.late, key |-> k, memories |-> memories,
                calls |-> end.log, promise |-> end.promise,
                skipped |-> { x[2] : x \in end.dropped }]

\* cleanupSession
cleanupSession(s) == capturedHashes' = MapDelete(capturedHashes, s)

\* ------------------------------------------------------- host timer queue
\* setTimeout: queue a timer with a fresh id
SetTimeout(q, id, info) == MapSet(q, id, info)
\* clearTimeout: a cleared timer never fires
ClearTimeout(q, id) == MapDelete(q, id)
NoTimer == 0
TimerInfo(kind, sid) == [kind |-> kind, sid |-> sid, todos |-> <<>>]

\* -------------------------------------------------------------- buffer.ts
\* maxSize of the plugin's contentBuffer
BufferMaxSize == 5

SpliceRestKeep(its) == its

\* what `this.items.splice(0)` leaves in the buffer
SpliceRest(its) == <<>>
\* what `this.items.splice(0)` returns: the batch handed to onFlush
SpliceBatch(its) == its

FlushTimersKept(q) == q

\* the queue after flush()'s clearTimeout, lines 41-44
FlushTimers(q) == IF bufTimer # NoTimer THEN ClearTimeout(q, bufTimer) ELSE q

IsFullLate(count) == count > BufferMaxSize

\* add, line 28: `this.items.length >= this.config.maxSize`
IsFull(count) == count >= BufferMaxSize

ArmsTimerAlways(timer) == TRUE

\* add, line 33: `if (!this.timer)`
ArmsTimer(timer) == timer = NoTimer

\* ContentBuffer.add(item), including the flush it starts when full; the item
\* carries the time of the call
BufferAdd(sid) ==
  LET item == [id |-> nextItem, sid |-> sid, at |-> now]
      pushed == Append(items, item)
  IN /\ nextItem <= MaxAdds
     /\ nextItem' = nextItem + 1
     /\ addedAt' = MapSet(addedAt, nextItem, Len(batches))
     /\ settled' = settled
     /\ IF IsFull(Len(pushed))
        THEN \* this.flush(): timer cleared, batch taken, onFlush called
             /\ timers' = FlushTimers(timers)
             /\ bufTimer' = NoTimer
             /\ items' = SpliceRest(pushed)
             /\ batches' = Append(batches, SpliceBatch(pushed))
             /\ nextTimer' = nextTimer
        ELSE /\ items' = pushed
             /\ batches' = batches
             /\ IF ArmsTimer(bufTimer)
                THEN /\ nextTimer <= MaxTimers
                     /\ timers' = SetTimeout(timers, nextTimer, TimerInfo("flush", Unknown))
                     /\ bufTimer' = nextTimer
                     /\ nextTimer' = nextTimer + 1
                ELSE UNCHANGED <<timers, bufTimer, nextTimer>>

\* ContentBuffer.flush() up to its `await this.config.onFlush(batch)`,
\* run on the timer queue q
BufferFlushOn(q) ==
  /\ timers' = (IF bufTimer # NoTimer THEN ClearTimeout(q, bufTimer) ELSE q)
  /\ bufTimer' = NoTimer
  /\ IF Len(items) = 0
     THEN UNCHANGED <<items, batches>>
     ELSE /\ items' = SpliceRest(items)
          /\ batches' = Append(batches, SpliceBatch(items))
  /\ UNCHANGED <<nextTimer, settled, addedAt, nextItem>>

\* an explicit contentBuffer.flush() call
Flush ==
  /\ BufferFlushOn(timers)
  /\ UNCHANGED <<captureVars, sessionVars, transformVars, ghostVars>>
  /\ UNCHANGED <<todoVars, engineVars, clockVars>>

\* the flush timer fires: its callback calls this.flush()
FlushTimerFire(t) ==
  /\ Has(timers, t)
  /\ timers[t].kind = "flush"
  /\ BufferFlushOn(MapDelete(timers, t))
  /\ UNCHANGED <<captureVars, sessionVars, transformVars, ghostVars>>
  /\ UNCHANGED <<todoVars, engineVars, clockVars>>

FlushResultRethrow(outcome) == outcome

\* flush, lines 49-53: `try { await onFlush(batch) } catch {}`
FlushResult(outcome) == "resolved"

\* the buffer after onFlush settled: the batch is not put back
ItemsAfterSettle(its, batch, outcome) == its

\* the promise returned by onFlush settles; a rejection is caught by flush()
OnFlushSettle(b, outcome) ==
  /\ b \in 1..Len(batches)
  /\ ~Has(settled, b)
  /\ settled' = MapSet(settled, b, [onFlush |-> outcome, flush |-> FlushResult(outcome),
                                    last |-> nextItem - 1])
  /\ items' = ItemsAfterSettle(items, batches[b], outcome)
  /\ UNCHANGED <<bufTimer, batches, addedAt, nextItem>>
  /\ UNCHANGED <<captureVars, sessionVars, timerVars, transformVars, ghostVars>>
  /\ UNCHANGED <<todoVars, engineVars, clockVars>>

\* ContentBuffer.add called directly
Add ==
  /\ BufferAdd(Unknown)
  /\ UNCHANGED <<captureVars, sessionVars, transformVars, ghostVars>>
  /\ UNCHANGED <<todoVars, engineVars, clockVars>>

\* ------------------------------ experimental.session.compacting (part_000)
NoCompaction == [pc |-> "idle"]

\* the instruction of lines 204-208 and the block of lines 253-257
Instruction == "IMPORTANT: When summarizing, preserve ..."
MemoryBlock == "PERSISTENT MEMORY ..."

CompactingFrame ==
  /\ UNCHANGED <<healthy, build, reqs, lastCall>>
  /\ UNCHANGED <<captureVars, sessionVars, transformVars, ghostVars, todoVars, clockVars>>

\* the hook is called: `await contentBuffer.flush()`.  flush() returns at once
\* when the buffer is empty; then captureRichSessionState sends the save.
CompactingStart(s) ==
  /\ compacting.pc \in {"idle", "done"}
  /\ BufferFlushOn(timers)
  /\ compacting' = [pc |-> IF Len(items) = 0 THEN "save" ELSE "flush",
                    sid |-> s,
                    batch |-> IF Len(items) = 0 THEN 0 ELSE Len(batches) + 1,
                    flush |-> IF Len(items) = 0 THEN "empty" ELSE "pending",
                    save |-> "pending", bootstrap |-> "pending",
                    context |-> <<>>]
  /\ CompactingFrame

\* the flush() promise of line 197 settles once onFlush has settled
CompactingFlushed ==
  /\ compacting.pc = "flush"
  /\ Has(settled, compacting.batch)
  /\ compacting' =
       IF settled[compacting.batch].flush = "resolved"
       THEN [compacting EXCEPT !.pc = "save", !.flush = settled[compacting.batch].onFlush]
       ELSE [compacting EXCEPT !.pc = "rejected", !.flush = settled[compacting.batch].onFlush]
  /\ UNCHANGED bufferVars
  /\ UNCHANGED timerVars
  /\ CompactingFrame

AfterSaveChecked(ok) == IF ok THEN "push" ELSE "return"

\* captureRichSessionState awaits saveState and drops its boolean result
AfterSave(ok) == "push"

\* saveState settles (true, or false on failure); lines 204-211: the
\* instruction is pushed and the aggregate-context request is sent
CompactingSaved(ok) ==
  /\ compacting.pc = "save"
  /\ compacting' =
       IF AfterSave(ok) = "push"
       THEN [compacting EXCEPT !.pc = "bootstrap",
                               !.save = IF ok THEN "saved" ELSE "failed",
                               !.context = Append(@, Instruction)]
       ELSE [compacting EXCEPT !.pc = "done", !.save = IF ok THEN "saved" ELSE "failed"]
  /\ UNCHANGED bufferVars
  /\ UNCHANGED timerVars
  /\ CompactingFrame

\* bootstrap() settles: null, data without content, or data with sections
CompactingBootstrapped(answer) ==
  /\ compacting.pc = "bootstrap"
  /\ compacting' = [compacting EXCEPT !.pc = "done", !.bootstrap = answer,
                                      !.context = IF answer = "sections"
                                                  THEN Append(@, MemoryBlock) ELSE @]
  /\ UNCHANGED bufferVars
  /\ UNCHANGED timerVars
  /\ CompactingFrame

\* ----------------------------------------------- plugin hooks (index.ts)
\* a hook call that names session s ends the "deleted and untouched" period
Touch(s) == deleted' = deleted \ {s}

IdleTimersAfterDeleteLeak(s) == timers

\* session.deleted, lines 475-478: the pending idle timer is cleared
IdleTimersAfterDelete(s) ==
  IF Has(idleTimers, s) THEN ClearTimeout(timers, idleTimers[s]) ELSE timers

\* event hook, session.created / session.updated
EventSessionUpdated(s, title) ==
  /\ sessionMeta' = MapSet(sessionMeta, s, title)
  /\ Touch(s)
  /\ UNCHANGED <<injectedSessions, sessionTodos, sessionFilesTouched,
                 sessionMessageCounts, idleTimers>>
  /\ UNCHANGED <<captureVars, timerVars, transformVars, bufferVars>>
  /\ UNCHANGED <<directives, savedBy, cancelledTimers>>
  /\ UNCHANGED <<todoVars, engineVars, clockVars>>

\* event hook, todo.updated
EventTodoUpdated(s, todos) ==
  /\ sessionTodos' = MapSet(sessionTodos, s, todos)
  /\ Touch(s)
  /\ UNCHANGED <<injectedSessions, sessionMeta, sessionFilesTouched,
                 sessionMessageCounts, idleTimers>>
  /\ UNCHANGED <<captureVars, timerVars, transformVars, bufferVars>>
  /\ UNCHANGED <<directives, savedBy, cancelledTimers>>
  /\ UNCHANGED <<todoVars, engineVars, clockVars>>

\* event hook, message.part.updated: processEvent keys the candidates by
\* part.sessionID; the touched file is keyed by properties.sessionID, which
\* this event shape does not carry, hence by "unknown"
EventMessagePartUpdated(s, memories, ok, files) ==
  /\ processEvent(s, memories, ok)
  /\ sessionFilesTouched' =
       IF files = {} THEN sessionFilesTouched
       ELSE MapSet(sessionFilesTouched, Unknown,
                   (IF Has(sessionFilesTouched, Unknown)
                    THEN sessionFilesTouched[Unknown] ELSE {}) \cup files)
  /\ Touch(s)
  /\ UNCHANGED <<injectedSessions, sessionMeta, sessionTodos,
                 sessionMessageCounts, idleTimers>>
  /\ UNCHANGED <<timerVars, transformVars, bufferVars>>
  /\ UNCHANGED <<directives, savedBy, cancelledTimers>>
  /\ UNCHANGED <<todoVars, engineVars, clockVars>>

\* event hook, session.error: properties.sessionID is optional, so the
\* candidate may land in the "unknown" ledger
EventSessionError(k, content, ok) ==
  /\ processEvent(k, <<content>>, ok)
  /\ deleted' = deleted \ {k}
  /\ UNCHANGED <<sessionVars, timerVars, transformVars, bufferVars>>
  /\ UNCHANGED <<directives, savedBy, cancelledTimers>>
  /\ UNCHANGED <<todoVars, engineVars, clockVars>>

TimersAfterIdleClearSkipped(s) == timers

\* session.idle: `if (idleTimers.has(sessionId)) clearTimeout(idleTimers.get(sessionId))`
TimersAfterIdleClear(s) ==
  IF Has(idleTimers, s) THEN ClearTimeout(timers, idleTimers[s]) ELSE timers

\* event hook, session.idle: debounce a working-state save
SessionIdleBody(s) ==
  /\ nextTimer <= MaxTimers
  /\ timers' = SetTimeout(TimersAfterIdleClear(s), nextTimer, TimerInfo("idle", s))
  /\ idleTimers' = MapSet(idleTimers, s, nextTimer)
  /\ nextTimer' = nextTimer + 1
  /\ Touch(s)
  /\ UNCHANGED <<injectedSessions, sessionMeta, sessionTodos, sessionFilesTouched,
                 sessionMessageCounts>>
  /\ UNCHANGED <<captureVars, transformVars, bufferVars>>
  /\ UNCHANGED <<directives, savedBy, cancelledTimers>>
  /\ UNCHANGED <<todoVars, engineVars>>

EventSessionIdle(s) == SessionIdleBody(s) /\ UNCHANGED clockVars

IdleTimersAfterSaveAwaited(s) == idleTimers

\* the callback does not await captureRichSessionState(...): it goes on to
\* `idleTimers.delete(sessionId)` with the save still in flight
IdleTimersAfterSave(s) == MapDelete(idleTimers, s)

\* the idle timer fires: captureRichSessionState issues the save, then the
\* map entry is dropped
IdleTimerBody(t) ==
  /\ Has(timers, t)
  /\ timers[t].kind = "idle"
  /\ timers' = MapDelete(timers, t)
  /\ savedBy' = savedBy \cup {t}
  /\ idleTimers' = IdleTimersAfterSave(timers[t].sid)
  /\ UNCHANGED <<injectedSessions, sessionMeta, sessionTodos, sessionFilesTouched,
                 sessionMessageCounts>>
  /\ UNCHANGED <<captureVars, nextTimer, transformVars, bufferVars>>
  /\ UNCHANGED <<directives, cancelledTimers, deleted>>
  /\ UNCHANGED <<todoVars, engineVars>>

IdleTimerFire(t) == IdleTimerBody(t) /\ UNCHANGED clockVars

\* event hook, session.deleted
EventSessionDeleted(s) ==
  /\ cleanupSession(s)
  /\ injectedSessions' = injectedSessions \ {s}
  /\ sessionMeta' = MapDelete(sessionMeta, s)
  /\ sessionTodos' = MapDelete(sessionTodos, s)
  /\ sessionFilesTouched' = MapDelete(sessionFilesTouched, s)
  /\ sessionMessageCounts' = MapDelete(sessionMessageCounts, s)
  /\ timers' = IdleTimersAfterDelete(s)
  /\ idleTimers' = MapDelete(idleTimers, s)
  /\ cancelledTimers' = cancelledTimers \cup
                          (IF Has(idleTimers, s) THEN {idleTimers[s]} ELSE {})
  /\ deleted' = deleted \cup {s}
  \* a new life of the session id: the per-life counts start again
  /\ storeCalls' = [x \in DOMAIN storeCalls |-> IF x[1] = s THEN 0 ELSE storeCalls[x]]
  /\ dropped' = { x \in dropped : x[1] # s }
  /\ captureLog' = [captureLog EXCEPT !.seen = { x \in @ : x[1] # s },
                                      !.late = { x \in @ : x[1] # s }]
  /\ injections' = [injections EXCEPT ![s] = 0]
  /\ UNCHANGED <<remembered, nextTimer, transformCalls, nextCall, bufferVars>>
  /\ UNCHANGED <<directives, savedBy>>
  /\ UNCHANGED <<todoVars, engineVars, clockVars>>

TextKinds == {"short", "directive", "long", "longDirective"}

\* chat.message hook (part_000 lines 142-173)
ChatMessage(s, kind) ==
  /\ LET count == (IF Has(sessionMessageCounts, s) THEN sessionMessageCounts[s] ELSE 0) + 1
     IN /\ count <= MaxMessages
        /\ sessionMessageCounts' = MapSet(sessionMessageCounts, s, count)
  /\ directives' = IF kind \in {"directive", "longDirective"}
                   THEN directives \cup {s} ELSE directives
  /\ IF kind \in {"long", "longDirective"}
     THEN BufferAdd(s)
     ELSE UNCHANGED <<bufferVars, timerVars>>
  /\ Touch(s)
  /\ UNCHANGED <<injectedSessions, sessionMeta, sessionTodos, sessionFilesTouched,
                 idleTimers>>
  /\ UNCHANGED <<captureVars, transformVars, savedBy, cancelledTimers>>
  /\ UNCHANGED <<todoVars, engineVars, clockVars>>

\* system.transform, lines 536-541: check the marker, then suspend
TransformStart(s) ==
  /\ nextCall <= MaxCalls
  /\ Touch(s)
  /\ IF s \in injectedSessions
     THEN UNCHANGED <<injectedSessions, transformVars>>
     ELSE /\ transformCalls' = MapSet(transformCalls, nextCall, s)
          /\ nextCall' = nextCall + 1
          /\ injectedSessions' = injectedSessions
          /\ injections' = injections
  /\ UNCHANGED <<sessionMeta, sessionTodos, sessionFilesTouched,
                 sessionMessageCounts, idleTimers>>
  /\ UNCHANGED <<captureVars, timerVars, bufferVars>>
  /\ UNCHANGED <<directives, savedBy, cancelledTimers>>
  /\ UNCHANGED <<todoVars, engineVars, clockVars>>

MarksSessionAlways(result) == TRUE

\* `if (!injection) return;` comes before `injectedSessions.add(sessionId)`
MarksSession(result) == result # "null"

\* system.transform, lines 542-545: buildInjection has resolved to null (the
\* store did not answer) or to an injection text
TransformResolve(c, result) ==
  /\ Has(transformCalls, c)
  /\ transformCalls' = MapDelete(transformCalls, c)
  /\ injectedSessions' = IF MarksSession(result)
                         THEN injectedSessions \cup {transformCalls[c]}
                         ELSE injectedSessions
  /\ injections' = IF result = "null" THEN injections
                   ELSE [injections EXCEPT ![transformCalls[c]] = @ + 1]
  /\ UNCHANGED <<sessionMeta, sessionTodos, sessionFilesTouched,
                 sessionMessageCounts, idleTimers>>
  /\ UNCHANGED <<captureVars, timerVars, nextCall, bufferVars, ghostVars>>
  /\ UNCHANGED <<todoVars, engineVars, clockVars>>

\* ----------------------------------------------------------- todo-sync.ts
IsSpace(c) == c \in {9, 10, 11, 12, 13, 32}

RECURSIVE TrimStart(_)
TrimStart(t) == IF Len(t) > 0 /\ IsSpace(t[1]) THEN TrimStart(Tail(t)) ELSE t

RECURSIVE TrimEnd(_)
TrimEnd(t) ==
  IF Len(t) > 0 /\ IsSpace(t[Len(t)]) THEN TrimEnd(SubSeq(t, 1, Len(t) - 1)) ELSE t

LowerCode(c) == IF c >= 65 /\ c <= 90 THEN c + 32 ELSE c

\* The variant that forgets toLowerCase().
ToLowerCaseSkipped(t) == t

ToLowerCase(t) == [i \in 1..Len(t) |-> LowerCode(t[i])]

normalize(content) == ToLowerCase(TrimEnd(TrimStart(content)))

mapStatus(s) ==
  IF s \in {"pending", "in_progress", "completed", "cancelled"} THEN s ELSE "pending"

mapPriority(p) == IF p \in {"high", "medium", "low"} THEN p ELSE "medium"

\* An idMap is a JS Map: a list of entries in insertion order.  set() on a
\* present key keeps its place, on a new key appends; delete() removes it.
NoId == 0

OMapPos(m, k) ==
  IF \E j \in 1..Len(m) : m[j].k = k
  THEN CHOOSE j \in 1..Len(m) : m[j].k = k
  ELSE 0

OMapGet(m, k) == IF OMapPos(m, k) = 0 THEN NoId ELSE m[OMapPos(m, k)].v

OMapSet(m, k, v) ==
  IF OMapPos(m, k) = 0
  THEN Append(m, [k |-> k, v |-> v])
  ELSE [m EXCEPT ![OMapPos(m, k)] = [k |-> k, v |-> v]]

RemoveAt(m, j) ==
  [x \in 1..(Len(m) - 1) |-> IF x < j THEN m[x] ELSE m[x + 1]]

OMapEntries(m) == { <<m[j].k, m[j].v>> : j \in 1..Len(m) }

\* The tables syncTodos builds from the listing: persistentById is the listing
\* itself (the store numbers its tasks 1, 2, ...), persistentByContent keeps
\* the last listed task of each normalized content.
persistentById(snap, pid) == IF pid \in DOMAIN snap THEN pid ELSE NoId

persistentByContent(snap, norm) ==
  LET hits == { pid \in DOMAIN snap : normalize(snap[pid].content) = norm }
  IN IF hits = {} THEN NoId ELSE CHOOSE pid \in hits : \A q \in hits : q <= pid

TodoIdsOf(todos) == { todos[j].id : j \in 1..Len(todos) }

\* A map iterator that sits at index cur sees the entries behind it move up
\* when an entry before it is deleted.
CursorAfterDelete(cur, pos) == IF pos # 0 /\ pos < cur THEN cur - 1 ELSE cur

RECURSIVE CursorAfterDeletes(_, _)
CursorAfterDeletes(cur, dels) ==
  IF dels = <<>> THEN cur
  ELSE CursorAfterDeletes(CursorAfterDelete(cur, Head(dels)), Tail(dels))

\* The second loop of syncTodos from map index c up to its next await or its
\* end; dels lists the positions it deleted on the way.
RECURSIVE CancelLoop(_, _, _, _)
CancelLoop(p, m, c, dels) ==
  IF c > Len(m)
  THEN [pass |-> [p EXCEPT !.pc = "done", !.cur = c], map |-> m, dels |-> dels]
  ELSE LET sessionTodoId == m[c].k
           persistentId == m[c].v
           pt == persistentById(p.snap, persistentId)
       IN IF persistentId \in p.seen \/ sessionTodoId \in TodoIdsOf(p.todos)
          THEN CancelLoop(p, m, c + 1, dels)
          ELSE IF pt # NoId /\ p.snap[pt].status \notin {"completed", "cancelled"}
               THEN [pass |-> [p EXCEPT !.pc = "cancel", !.cur = c,
                                        !.target = persistentId,
                                        !.eid = sessionTodoId,
                                        !.cancelIssued = @ \cup {persistentId}],
                     map |-> m, dels |-> dels]
               ELSE CancelLoop(p, RemoveAt(m, c), c, Append(dels, c))

\* The first loop of syncTodos from todo i up to its next await; it runs on
\* into the second loop when the todos are exhausted.
RECURSIVE MainLoop(_, _, _)
MainLoop(p, m, i) ==
  IF i > Len(p.todos)
  THEN CancelLoop([p EXCEPT !.i = i], m, 1, <<>>)
  ELSE LET st == p.todos[i]
           norm == normalize(st.content)
           mappedId == OMapGet(m, st.id)
           byMap == IF mappedId # NoId THEN persistentById(p.snap, mappedId) ELSE NoId
           persistent == IF byMap # NoId THEN byMap ELSE persistentByContent(p.snap, norm)
           status == mapStatus(st.status)
           priority == mapPriority(st.priority)
       IN IF persistent # NoId
          THEN LET changed == \/ p.snap[persistent].status # status
                              \/ p.snap[persistent].priority # priority
                              \/ normalize(p.snap[persistent].content) # norm
                   entry == [idx |-> i, pid |-> persistent, mapped |-> mappedId,
                             kind |-> IF changed THEN "update" ELSE "keep"]
                   p1 == [p EXCEPT !.seen = @ \cup {persistent},
                                   !.log = Append(@, entry), !.i = i]
                   m1 == OMapSet(m, st.id, persistent)
               IN IF changed
                  THEN [pass |-> [p1 EXCEPT !.pc = "update", !.target = persistent],
                        map |-> m1, dels |-> <<>>]
                  ELSE MainLoop(p1, m1, i + 1)
          ELSE [pass |-> [p EXCEPT !.pc = "create", !.i = i,
                                   !.log = Append(@, [idx |-> i, pid |-> NoId,
                                                      mapped |-> mappedId,
                                                      kind |-> "create"])],
                map |-> m, dels |-> <<>>]

\* idMap objects still referenced by the session table or by a running pass
Collect(maps, table, ps) ==
  LET live == { table[s] : s \in DOMAIN table } \cup { ps[q].ref : q \in DOMAIN ps }
  IN [r \in (DOMAIN maps) \cap live |-> maps[r]]

SyncTimerInfo(sid, todos) == [kind |-> "sync", sid |-> sid, todos |-> todos]

TimersAfterSyncClearSkipped(s) == timers

\* onTodoUpdated, lines 24-26: the session's pending debounce timer is cleared
TimersAfterSyncClear(s) ==
  IF Has(syncTimers, s) THEN ClearTimeout(timers, syncTimers[s]) ELSE timers

\* onTodoUpdated (lines 19-36): re-arm the session's debounce timer
TodoUpdatedBody(s, todos) ==
  /\ nextTimer <= MaxTimers
  /\ timers' = SetTimeout(TimersAfterSyncClear(s), nextTimer, SyncTimerInfo(s, todos))
  /\ syncTimers' = MapSet(syncTimers, s, nextTimer)
  /\ nextTimer' = nextTimer + 1
  /\ Touch(s)
  /\ UNCHANGED <<sessionToPersistent, idMaps, ptodos, passes, nextPass, lastDone>>
  /\ UNCHANGED <<captureVars, sessionVars, transformVars, bufferVars, engineVars>>
  /\ UNCHANGED <<directives, savedBy, cancelledTimers>>

OnTodoUpdated(s, todos) == TodoUpdatedBody(s, todos) /\ UNCHANGED clockVars

\* cleanupSyncState (lines 113-119)
CleanupSyncState(s) ==
  /\ sessionToPersistent' = MapDelete(sessionToPersistent, s)
  /\ idMaps' = Collect(idMaps, MapDelete(sessionToPersistent, s), passes)
  /\ timers' = IF Has(syncTimers, s) THEN ClearTimeout(timers, syncTimers[s]) ELSE timers
  /\ syncTimers' = MapDelete(syncTimers, s)
  /\ UNCHANGED <<ptodos, passes, nextPass, lastDone, nextTimer>>
  /\ UNCHANGED <<captureVars, sessionVars, transformVars, bufferVars, ghostVars,
                 engineVars, clockVars>>

\* A syncTodos invocation as it enters the function.
NewPass(s, todos, ref) ==
  [sid |-> s, todos |-> todos, ref |-> ref, pc |-> "list", snap |-> <<>>,
   i |-> 1, seen |-> {}, cur |-> 1, target |-> NoId, eid |-> NoId,
   log |-> <<>>, cancelIssued |-> {},
   mapped0 |-> IF Has(idMaps, ref) THEN OMapEntries(idMaps[ref]) ELSE {},
   store0 |-> [pid \in DOMAIN ptodos |-> ptodos[pid].status],
   afterDelete |-> s \in deleted,
   \* the invocation that returned last had the same session and snapshot,
   \* and no other invocation is under way
   repeats |-> /\ lastDone # <<>>
               /\ lastDone[1].sid = s
               /\ lastDone[1].todos = todos
               /\ DOMAIN passes = {}]

\* The debounce timer's callback (lines 29-34) and syncTodos up to its first
\* await (lines 43-50).
SyncTimerBody(t) ==
  /\ Has(timers, t)
  /\ timers[t].kind = "sync"
  /\ nextPass <= MaxPasses
  /\ LET s == timers[t].sid
         todos == timers[t].todos
         known == Has(sessionToPersistent, s)
     IN /\ timers' = MapDelete(timers, t)
        /\ syncTimers' = MapDelete(syncTimers, s)
        /\ nextPass' = nextPass + 1
        /\ IF todos = <<>>
           THEN /\ lastDone' = <<[NewPass(s, todos, IF known THEN sessionToPersistent[s] ELSE NoId)
                                    EXCEPT !.pc = "done"]>>
                /\ UNCHANGED <<sessionToPersistent, idMaps, passes>>
           ELSE LET ref == IF known THEN sessionToPersistent[s] ELSE nextPass
                IN /\ sessionToPersistent' = MapSet(sessionToPersistent, s, ref)
                   /\ idMaps' = IF known THEN idMaps ELSE MapSet(idMaps, ref, <<>>)
                   /\ passes' = MapSet(passes, nextPass, NewPass(s, todos, ref))
                   /\ UNCHANGED lastDone
  /\ UNCHANGED <<ptodos, nextTimer>>
  /\ UNCHANGED <<captureVars, sessionVars, transformVars, bufferVars, ghostVars,
                 engineVars>>

SyncTimerFire(t) == SyncTimerBody(t) /\ UNCHANGED clockVars

\* A pass reaches its next await, or returns: its record, its idMap and the
\* iterators of the other passes that walk the same idMap are brought up to date.
Commit(q, r, dels) ==
  LET ref == r.pass.ref
      shifted == [x \in DOMAIN passes |->
                    IF x # q /\ passes[x].ref = ref /\ passes[x].pc = "cancel"
                    THEN [passes[x] EXCEPT !.cur = CursorAfterDeletes(@, dels)]
                    ELSE passes[x]]
      ps == IF r.pass.pc = "done" THEN MapDelete(shifted, q) ELSE MapSet(shifted, q, r.pass)
  IN /\ passes' = ps
     /\ idMaps' = Collect(MapSet(idMaps, ref, r.map), sessionToPersistent, ps)
     /\ lastDone' = IF r.pass.pc = "done" THEN <<r.pass>> ELSE lastDone

PassFrame ==
  /\ UNCHANGED <<sessionToPersistent, syncTimers, nextPass, timerVars>>
  /\ UNCHANGED <<captureVars, sessionVars, transformVars, bufferVars, ghostVars,
                 engineVars, clockVars>>

\* listTodos settles (line 50); ok = FALSE is the client's null result
PassListed(q, ok) ==
  /\ Has(passes, q)
  /\ passes[q].pc = "list"
  /\ LET p == [passes[q] EXCEPT !.snap = IF ok THEN ptodos ELSE <<>>]
         r == MainLoop(p, idMaps[p.ref], 1)
     IN Commit(q, r, r.dels)
  /\ UNCHANGED ptodos
  /\ PassFrame

\* updateTodo of line 83 settles
PassUpdated(q, ok) ==
  /\ Has(passes, q)
  /\ passes[q].pc = "update"
  /\ LET p == passes[q]
         st == p.todos[p.i]
         r == MainLoop(p, idMaps[p.ref], p.i + 1)
     IN /\ ptodos' = IF ok
                     THEN [ptodos EXCEPT ![p.target] =
                             [content |-> st.content, status |-> mapStatus(st.status),
                              priority |-> mapPriority(st.priority)]]
                     ELSE ptodos
        /\ Commit(q, r, r.dels)
  /\ PassFrame

MapAfterCreateSkipped(m, id, created) == m

\* `if (created) { idMap.set(st.id, created.id); ... }`, lines 94-96
MapAfterCreate(m, id, created) == OMapSet(m, id, created)

\* createTodo of line 86 settles; the store numbers the new task
PassCreated(q, ok) ==
  /\ Has(passes, q)
  /\ passes[q].pc = "create"
  /\ ok => Len(ptodos) < MaxTasks
  /\ LET p == passes[q]
         st == p.todos[p.i]
         created == Len(ptodos) + 1
         p1 == IF ok THEN [p EXCEPT !.seen = @ \cup {created}] ELSE p
         m1 == IF ok THEN MapAfterCreate(idMaps[p.ref], st.id, created) ELSE idMaps[p.ref]
         r == MainLoop(p1, m1, p.i + 1)
     IN /\ ptodos' = IF ok
                     THEN Append(ptodos, [content |-> st.content,
                                          status |-> mapStatus(st.status),
                                          priority |-> mapPriority(st.priority)])
                     ELSE ptodos
        /\ Commit(q, r, r.dels)
  /\ PassFrame

\* updateTodo of line 107 settles, then line 109 drops the mapping
PassCancelled(q, ok) ==
  /\ Has(passes, q)
  /\ passes[q].pc = "cancel"
  /\ LET p == passes[q]
         m == idMaps[p.ref]
         pos == OMapPos(m, p.eid)
         m1 == IF pos = 0 THEN m ELSE RemoveAt(m, pos)
         c1 == CursorAfterDelete(p.cur, pos)
         r == CancelLoop(p, m1, c1, <<>>)
     IN /\ ptodos' = IF ok
                     THEN [ptodos EXCEPT ![p.target].status = "cancelled"]
                     ELSE ptodos
        /\ Commit(q, r, IF pos = 0 THEN r.dels ELSE <<pos>> \o r.dels)
  /\ PassFrame

\* ------------------------------------- getBootstrapTodos (todo-sync.ts)
NoCall == [fn |-> "none"]

\* `limit: 20` of the listTodos request
BootstrapLimit == 20

TodoStatus == {"pending", "in_progress", "completed", "cancelled"}

\* listTodos answered null (request failed)
ListFailed == [ok |-> FALSE, todos |-> <<>>]

NullResult == [kind |-> "null", items |-> <<>>]

IsOpenAny(t) == TRUE

\* the filter of line 126
IsOpen(t) == t.status # "completed" /\ t.status # "cancelled"

\* one rendered line per task that passes the filter, in listing order
getBootstrapTodos(result) ==
  IF ~result.ok \/ Len(result.todos) = 0 THEN NullResult
  ELSE LET listed == SelectSeq(result.todos, IsOpen)
       IN IF Len(listed) = 0 THEN NullResult
          ELSE [kind |-> "section", items |-> listed]

CallFrame ==
  /\ UNCHANGED <<healthy, build, reqs, compacting>>
  /\ UNCHANGED <<captureVars, sessionVars, timerVars, transformVars, ghostVars,
                 bufferVars, todoVars, clockVars>>

\* memory_bootstrap awaits getBootstrapTodos; result is what listTodos answered
GetBootstrapTodos(result) ==
  /\ lastCall' = [fn |-> "getBootstrapTodos", input |-> result,
                  result |-> getBootstrapTodos(result)]
  /\ CallFrame

\* ------------------------------- extractFromPart, text part (capture.ts)
\* A text is the list of the pieces `split(/[.!?\n]+/)` yields: each piece has
\* a length and either contains a decision keyword or not.  No keyword holds
\* a separator, so DECISION_PATTERNS matches the text exactly when it matches
\* one of the pieces.
MinTextLength == 100
MinSentenceLength == 20
MaxDecisions == 3

RECURSIVE SumOfLengths(_)
SumOfLengths(text) ==
  IF text = <<>> THEN 0 ELSE Head(text).len + SumOfLengths(Tail(text))

\* pieces joined by one separator character each
TextLength(text) == SumOfLengths(text) + (Len(text) - 1)

TestsDecision(piece) == piece.signal

\* the pieces, numbered in text order, that pass `.filter(s => s.length > 20)`
Sentences(text) ==
  SelectSeq([j \in 1..Len(text) |-> j], LAMBDA j : text[j].len > MinSentenceLength)

\* `sentences.slice(0, 3)`
FirstSentences(sentences) ==
  SubSeq(sentences, 1, IF Len(sentences) < MaxDecisions THEN Len(sentences) ELSE MaxDecisions)

\* the decision candidates of a text part, as the numbers of their pieces
extractFromPart(text) ==
  IF TextLength(text) > MinTextLength /\ \E j \in 1..Len(text) : TestsDecision(text[j])
  THEN SelectSeq(FirstSentences(Sentences(text)), LAMBDA j : TestsDecision(text[j]))
  ELSE <<>>

\* message.part.updated with a text part reaches the extractor
ExtractFromPart(text) ==
  /\ lastCall' = [fn |-> "extractFromPart", input |-> text,
                  result |-> extractFromPart(text)]
  /\ CallFrame

\* ------------------------------- extractFromPart, tool part (capture.ts)
\* A tool output is its length, whether FAILURE_PATTERNS matches it, and the
\* transient condition it reports, if any.
FILE_MUTATION_TOOLS == {"write", "edit", "bash", "mcp_write", "mcp_edit", "mcp_bash"}

MinMutationOutput == 50

\* the candidates of a tool part, in the order they are pushed
extractFromToolPart(part) ==
  IF part.status = "completed"
  THEN (IF part.tool \in FILE_MUTATION_TOOLS /\ part.output.len > MinMutationOutput
        THEN <<[type |-> "decision", source |-> "file-change"]>> ELSE <<>>)
       \o
       (IF part.output.matches
        THEN <<[type |-> "failure", source |-> "tool-failure"]>> ELSE <<>>)
  ELSE IF part.status = "error"
  THEN <<[type |-> "failure", source |-> "tool-error"]>>
  ELSE <<>>

\* message.part.updated with a tool part reaches the extractor
ExtractFromToolPart(part) ==
  /\ lastCall' = [fn |-> "extractFromToolPart", input |-> part,
                  result |-> extractFromToolPart(part)]
  /\ CallFrame

\* ------------------------------------------ injection engine (part_002)
\* no buildInjection call under way
NoBuild == [pc |-> "idle"]

\* model.limit.context, or NoContext when the model carries no context size
NoContext == -1

DEFAULT_BUDGET_CHARS == 3000
MIN_BUDGET_CHARS == 600
MAX_BUDGET_CHARS == 8000

Min(a, b) == IF a < b THEN a ELSE b
Max(a, b) == IF a > b THEN a ELSE b

\* Math.round(context * 0.025 * 4): a tenth of the context size, halves up
RoundedBudgetChars(context) == (context + 5) \div 10

\* The variant that tests only for a missing context size.
ContextMissingOnly(context) == context = NoContext

\* !model?.limit?.context: no size, or the falsy size 0
ContextMissing(context) == context = NoContext \/ context = 0

computeBudget(context) ==
  IF ContextMissing(context) THEN DEFAULT_BUDGET_CHARS
  ELSE Max(MIN_BUDGET_CHARS, Min(MAX_BUDGET_CHARS, RoundedBudgetChars(context)))

\* Math.log10(messageCount) in units of 1/100000, for the message counts drawn
MessageCounts == {0, 1, 10, 11, 20, 50, 100, 1000}

Log10E5 ==
  [n \in MessageCounts \ {0} |->
     CASE n = 1 -> 0
       [] n = 10 -> 100000
       [] n = 11 -> 104139
       [] n = 20 -> 130103
       [] n = 50 -> 169897
       [] n = 100 -> 200000
       [] n = 1000 -> 300000]

\* Math.max(0.35, 1.0 - Math.log10(messageCount) * 0.35), in units of 1/100000
decayFactor(messageCount) ==
  Max(35000, 100000 - (Log10E5[messageCount] * 35) \div 100)

\* lines 176-180; messageCount 0 stands for an absent or zero count
DecayedBudget(baseBudget, messageCount) ==
  IF messageCount # 0 /\ messageCount > 10
  THEN (baseBudget * decayFactor(messageCount) + 50000) \div 100000
  ELSE baseBudget

memoryLimit(budget) == IF budget > 4000 THEN 15 ELSE IF budget > 2000 THEN 10 ELSE 5
episodeLimit(budget) == IF budget > 4000 THEN 3 ELSE IF budget > 2000 THEN 2 ELSE 0

\* A bootstrap answer, by the lengths of the texts buildTieredSections makes
\* of it: stateKind is "null", "empty" ({}) or "object"; stateLen the length of
\* formatStateCompact(state); each list the length of its joined lines, 0 for
\* an empty list; otherMemories the memories of type failure or constraint.
NullData ==
  [answered |-> FALSE, stateKind |-> "null", stateLen |-> 0, constraints |-> 0,
   failed |-> 0, keyMemories |-> 0, otherMemories |-> 0, crossProject |-> 0,
   episodes |-> 0]

LabelLen ==
  [l \in {"state", "constraints", "failed", "memories", "cross", "episodes"} |->
     CASE l = "state" -> 21        \* "## Last Session State"
       [] l = "constraints" -> 14  \* "## Constraints"
       [] l = "failed" -> 36       \* "## Recent Failures (avoid repeating)"
       [] l = "memories" -> 15     \* "## Key Memories"
       [] l = "cross" -> 26        \* "## Cross-Project Knowledge"
       [] l = "episodes" -> 17]    \* "## Prior Sessions"

\* a section, with the length of `${label}\n${content}`
Section(tier, label, contentLen) ==
  [tier |-> tier, label |-> label, len |-> LabelLen[label] + 1 + contentLen]

PushIf(cond, seq, x) == IF cond THEN Append(seq, x) ELSE seq

buildTieredSections(data) ==
  LET s1 == PushIf(data.stateKind = "object" /\ data.stateLen > 10, <<>>,
                   Section(1, "state", data.stateLen))
      s2 == PushIf(data.constraints > 0, s1, Section(1, "constraints", data.constraints))
      s3 == PushIf(data.failed > 0, s2, Section(2, "failed", data.failed))
      s4 == PushIf(data.keyMemories > 0, s3, Section(3, "memories", data.keyMemories))
      s5 == PushIf(data.crossProject > 0, s4, Section(3, "cross", data.crossProject))
  IN PushIf(data.episodes > 0, s5, Section(4, "episodes", data.episodes))

\* [...sections].sort((a, b) => a.tier - b.tier): a stable sort
RECURSIVE InsertByTier(_, _)
InsertByTier(sorted, x) ==
  IF sorted = <<>> THEN <<x>>
  ELSE IF sorted[Len(sorted)].tier <= x.tier THEN Append(sorted, x)
  ELSE Append(InsertByTier(SubSeq(sorted, 1, Len(sorted) - 1), x), sorted[Len(sorted)])

RECURSIVE SortByTier(_)
SortByTier(sections) ==
  IF sections = <<>> THEN <<>>
  ELSE InsertByTier(SortByTier(SubSeq(sections, 1, Len(sections) - 1)),
                    sections[Len(sections)])

TruncationMarkerLen == 15    \* "\n[...truncated]"

\* The variant that cuts at the remaining budget without room for the marker.
TruncatedLenNoReserve(blockLen, remaining) == Min(blockLen, remaining) + TruncationMarkerLen

\* String.prototype.slice(0, end).length
SliceLen(len, end) == IF end >= 0 THEN Min(len, end) ELSE Max(len + end, 0)

\* block.slice(0, remaining - 30) + "\n[...truncated]"
TruncatedLen(blockLen, remaining) == SliceLen(blockLen, remaining - 30) + TruncationMarkerLen

\* The variant that skips a section that does not fit and goes on.
StopsAtMisfitNever(section) == FALSE

\* the `break` of line 143
StopsAtMisfit(section) == TRUE

\* line 139
Truncates(section, remaining) == section.tier = 1 /\ remaining > 100

Piece(section, len, truncated) ==
  [label |-> section.label, tier |-> section.tier, len |-> len, truncated |-> truncated]

\* the loop of assembleSections from sorted[i] on
RECURSIVE AssembleLoop(_, _, _, _)
AssembleLoop(sorted, i, remaining, result) ==
  IF i > Len(sorted) THEN result
  ELSE LET section == sorted[i]
       IN IF section.len + 2 > remaining
          THEN IF Truncates(section, remaining)
               THEN Append(result, Piece(section, TruncatedLen(section.len, remaining), TRUE))
               ELSE IF StopsAtMisfit(section) THEN result
               ELSE AssembleLoop(sorted, i + 1, remaining, result)
          ELSE AssembleLoop(sorted, i + 1, remaining - (section.len + 2),
                            Append(result, Piece(section, section.len, FALSE)))

assembleSections(sections, budgetChars) ==
  AssembleLoop(SortByTier(sections), 1, budgetChars, <<>>)

\* result.join("\n\n").length
RECURSIVE SumLen(_)
SumLen(pieces) == IF pieces = <<>> THEN 0 ELSE pieces[1].len + SumLen(Tail(pieces))

JoinedLen(pieces) == IF pieces = <<>> THEN 0 ELSE SumLen(pieces) + 2 * (Len(pieces) - 1)

\* The variant that never returns the sentinel.
NullSentinelNever(data) == FALSE

\* line 192: if (!data) return null
NullSentinel(data) == ~data.answered

\* lines 194-200
hasContent(data) ==
  \/ data.keyMemories > 0 \/ data.otherMemories > 0
  \/ data.crossProject > 0
  \/ data.constraints > 0
  \/ data.failed > 0
  \/ data.stateKind # "null"
  \/ data.episodes > 0

\* what buildInjection returns once bootstrap() has settled with data
BuildResult(data, budget) ==
  IF NullSentinel(data) THEN [kind |-> "null"]
  ELSE IF ~hasContent(data) THEN [kind |-> "notice"]
  ELSE [kind |-> "content",
        pieces |-> assembleSections(buildTieredSections(data), budget),
        disclosure |-> IF budget < 3000 THEN "bootstrap-or-recall" ELSE "recall"]

\* buildInjection up to `await bootstrap(...)` (lines 172-189)
BuildStart(context, messageCount) ==
  /\ build.pc = "idle"
  /\ LET baseBudget == computeBudget(context)
         budget == DecayedBudget(baseBudget, messageCount)
     IN build' = [pc |-> "await", context |-> context, messageCount |-> messageCount,
                  baseBudget |-> baseBudget, budget |-> budget,
                  memoryLimit |-> memoryLimit(budget),
                  episodeLimit |-> episodeLimit(budget)]
  /\ UNCHANGED <<healthy, reqs, lastCall, compacting, clockVars>>
  /\ UNCHANGED <<captureVars, sessionVars, timerVars, transformVars, ghostVars,
                 bufferVars, todoVars>>

\* bootstrap() settles with data and buildInjection returns (lines 192-225)
BuildResolve(data) ==
  /\ build.pc = "await"
  /\ build' = [pc |-> "done", context |-> build.context,
               messageCount |-> build.messageCount,
               baseBudget |-> build.baseBudget, budget |-> build.budget,
               data |-> data,
               sections |-> buildTieredSections(data),
               result |-> BuildResult(data, build.budget)]
  /\ UNCHANGED <<healthy, reqs, lastCall, compacting, clockVars>>
  /\ UNCHANGED <<captureVars, sessionVars, timerVars, transformVars, ghostVars,
                 bufferVars, todoVars>>

\* the next transform call builds afresh
BuildReturn ==
  /\ build.pc = "done"
  /\ build' = NoBuild
  /\ UNCHANGED <<healthy, reqs, lastCall, compacting, clockVars>>
  /\ UNCHANGED <<captureVars, sessionVars, timerVars, transformVars, ghostVars,
                 bufferVars, todoVars>>

\* ------------------------------------------------- tools.ts: store client
TIMEOUT_MS == 5000
EXTRACT_TIMEOUT_MS == 30000

\* one step of the model clock, in milliseconds: the shortest of the delays
TimeUnitMs == TIMEOUT_MS

ClientOps ==
  {"isServiceHealthy", "remember", "recall", "bootstrap", "saveState",
   "saveEpisode", "extract", "listTodos", "createTodo", "updateTodo"}

\* the delay passed to setTimeout(() => controller.abort(), ...)
TimeoutOf(op) == IF op = "extract" THEN EXTRACT_TIMEOUT_MS ELSE TIMEOUT_MS

\* bodies a response may carry: nothing, text that is no JSON, JSON null, the
\* object the operation expects, any other JSON object
BodyKinds == {"empty", "unparsable", "null", "ok", "other"}

Resolved(value) == [settlement |-> "resolved", value |-> value]

CatchRethrow(error) == [settlement |-> "rejected", value |-> error]

\* `catch (error) { ...; return null; }`
Catch(error) == Resolved("null")

\* `if (!text) return null; return JSON.parse(text)`
ParseBody(kind) ==
  IF kind = "empty" THEN Resolved("null")
  ELSE IF kind = "unparsable" THEN Catch("SyntaxError")
  ELSE Resolved(kind)

\* what the caller's code after `await request(...)` makes of its outcome
Wrapper(op, outcome) ==
  IF outcome.settlement = "rejected" THEN outcome
  ELSE IF op = "isServiceHealthy"
    THEN Resolved(IF outcome.value = "ok" THEN "true" ELSE "false")
  ELSE IF op = "saveState"
    THEN Resolved(IF outcome.value # "null" THEN "true" ELSE "false")
  ELSE outcome

Settle(id, cause, outcome) ==
  [reqs[id] EXCEPT !.pc = "settled", !.cause = cause,
                   !.settlement = Wrapper(reqs[id].op, outcome).settlement,
                   !.value = Wrapper(reqs[id].op, outcome).value]

RequestFrame ==
  /\ UNCHANGED <<healthy, build, lastCall, compacting, armedAt, savedAt>>
  /\ UNCHANGED <<captureVars, sessionVars, timerVars, transformVars, ghostVars,
                 bufferVars, todoVars>>

\* a client operation is called: the abort timer is armed and fetch is awaited
Call(op) ==
  /\ Cardinality(DOMAIN reqs) < MaxReqs
  /\ reqs' = MapSet(reqs, Cardinality(DOMAIN reqs) + 1,
                    [op |-> op, pc |-> "fetch", timer |-> TRUE, at |-> now,
                     cause |-> "none", settlement |-> "pending", value |-> "none"])
  /\ UNCHANGED now
  /\ RequestFrame

\* fetch rejects (connection refused, reset): the catch block returns null;
\* clearTimeout is not reached
FetchRejects(id) ==
  /\ Has(reqs, id)
  /\ reqs[id].pc = "fetch"
  /\ reqs' = MapSet(reqs, id, Settle(id, "network", Catch("TypeError")))
  /\ UNCHANGED now
  /\ RequestFrame

\* the abort timer fires: a fetch still awaited rejects with AbortError
TimeoutFires(id) ==
  /\ Has(reqs, id)
  /\ reqs[id].timer
  /\ now >= reqs[id].at + TimeoutOf(reqs[id].op)
  /\ reqs' = MapSet(reqs, id,
                    IF reqs[id].pc = "fetch"
                    THEN [Settle(id, "timeout", Catch("AbortError")) EXCEPT !.timer = FALSE]
                    ELSE [reqs[id] EXCEPT !.timer = FALSE])
  /\ UNCHANGED now
  /\ RequestFrame

\* the status line and headers arrive: fetch resolves, the timer is cleared,
\* a non-success status returns null, otherwise the body is awaited
HeadersArrive(id, ok) ==
  /\ Has(reqs, id)
  /\ reqs[id].pc = "fetch"
  /\ reqs' = MapSet(reqs, id,
                    IF ok THEN [reqs[id] EXCEPT !.pc = "body", !.timer = FALSE]
                    ELSE [Settle(id, "status", Resolved("null")) EXCEPT !.timer = FALSE])
  /\ UNCHANGED now
  /\ RequestFrame

\* the body completes: response.text() resolves
BodyArrives(id, kind) ==
  /\ Has(reqs, id)
  /\ reqs[id].pc = "body"
  /\ reqs' = MapSet(reqs, id,
                    Settle(id, IF kind \in {"empty", "unparsable"} THEN kind ELSE "answered",
                           ParseBody(kind)))
  /\ UNCHANGED now
  /\ RequestFrame

\* the connection breaks while the body is read: response.text() rejects
BodyFails(id) ==
  /\ Has(reqs, id)
  /\ reqs[id].pc = "body"
  /\ reqs' = MapSet(reqs, id, Settle(id, "network", Catch("TypeError")))
  /\ UNCHANGED now
  /\ RequestFrame

IDLE_SAVE_DELAY_MS == 10000

\* session.idle at the current time: the new timer is due IDLE_SAVE_DELAY_MS later
TimedIdle(s) ==
  /\ SessionIdleBody(s)
  /\ armedAt' = MapSet(armedAt, nextTimer, [sid |-> s, at |-> now])
  /\ UNCHANGED <<now, savedAt>>

\* the idle timer fires no earlier than it is due and the save is issued
TimedIdleFire(t) ==
  /\ IdleTimerBody(t)
  /\ Has(armedAt, t)
  /\ now >= armedAt[t].at + IDLE_SAVE_DELAY_MS
  /\ savedAt' = MapSet(savedAt, t, [at |-> now, last |-> nextTimer - 1])
  /\ UNCHANGED <<now, armedAt>>

SYNC_DEBOUNCE_MS == 1500

\* flushIntervalMs of the plugin's contentBuffer
FlushIntervalMs == 30000

\* the delay each kind of timer is armed with
DelayOf(kind) ==
  IF kind = "idle" THEN IDLE_SAVE_DELAY_MS
  ELSE IF kind = "sync" THEN SYNC_DEBOUNCE_MS
  ELSE FlushIntervalMs

\* onTodoUpdated at the current time
TimedTodoUpdated(s, todos) ==
  /\ TodoUpdatedBody(s, todos)
  /\ armedAt' = MapSet(armedAt, nextTimer, [sid |-> s, at |-> now, todos |-> todos])
  /\ UNCHANGED <<now, savedAt>>

\* the debounce timer fires no earlier than it is due and syncTodos is entered
TimedSyncFire(t) ==
  /\ SyncTimerBody(t)
  /\ Has(armedAt, t)
  /\ now >= armedAt[t].at + SYNC_DEBOUNCE_MS
  /\ savedAt' = MapSet(savedAt, t,
                       [at |-> now, last |-> nextTimer - 1,
                        todos |-> IF Has(passes', nextPass) THEN passes'[nextPass].todos
                                  ELSE lastDone'[1].todos])
  /\ UNCHANGED <<now, armedAt>>

BufferFrame ==
  /\ UNCHANGED <<captureVars, sessionVars, transformVars, ghostVars>>
  /\ UNCHANGED <<todoVars, engineVars, now>>

\* the flush that took the latest batch, if this step took one
FlushRecorded(by, t) ==
  savedAt' = IF Len(batches') > Len(batches)
             THEN MapSet(savedAt, Len(batches'), [at |-> now, by |-> by, timer |-> t])
             ELSE savedAt

\* ContentBuffer.add at the current time
TimedAdd ==
  /\ BufferAdd(Unknown)
  /\ armedAt' = IF nextTimer' # nextTimer
                THEN MapSet(armedAt, nextTimer, [sid |-> Unknown, at |-> now])
                ELSE armedAt
  /\ FlushRecorded("full", NoTimer)
  /\ BufferFrame

\* an explicit contentBuffer.flush() at the current time
TimedFlush ==
  /\ BufferFlushOn(timers)
  /\ FlushRecorded("explicit", NoTimer)
  /\ UNCHANGED armedAt
  /\ BufferFrame

\* the flush timer fires no earlier than it is due
TimedFlushFire(t) ==
  /\ Has(timers, t)
  /\ timers[t].kind = "flush"
  /\ Has(armedAt, t)
  /\ now >= armedAt[t].at + FlushIntervalMs
  /\ BufferFlushOn(MapDelete(timers, t))
  /\ FlushRecorded("timer", t)
  /\ UNCHANGED armedAt
  /\ BufferFrame

\* time passes; a timer that is due fires before time moves on
Tick ==
  /\ now < MaxTime * TimeUnitMs
  /\ \A t \in DOMAIN timers :
       Has(armedAt, t) => now < armedAt[t].at + DelayOf(timers[t].kind)
  /\ \A id \in DOMAIN reqs :
       reqs[id].timer => now < reqs[id].at + TimeoutOf(reqs[id].op)
  /\ now' = now + TimeUnitMs
  /\ UNCHANGED <<healthy, build, reqs, lastCall, compacting, armedAt, savedAt>>
  /\ UNCHANGED <<captureVars, sessionVars, timerVars, transformVars, ghostVars,
                 bufferVars, todoVars>>

\* ------------------------------------------------------------------ Init
InitPlugin ==
  /\ capturedHashes = EmptyMap
  /\ storeCalls = [x \in SessionKeys \X Contents |-> 0]
  /\ dropped = {}
  /\ remembered = {}
  /\ captureLog = [seen |-> {}, late |-> {}, key |-> Unknown, memories |-> <<>>,
                   calls |-> <<>>, promise |-> "resolved", skipped |-> {}]
  /\ injectedSessions = {}
  /\ sessionMeta = EmptyMap
  /\ sessionTodos = EmptyMap
  /\ sessionFilesTouched = EmptyMap
  /\ sessionMessageCounts = EmptyMap
  /\ idleTimers = EmptyMap
  /\ timers = EmptyMap
  /\ nextTimer = 1
  /\ transformCalls = EmptyMap
  /\ nextCall = 1
  /\ injections = [s \in Sessions |-> 0]
  /\ directives = {}
  /\ savedBy = {}
  /\ cancelledTimers = {}
  /\ deleted = {}
  /\ items = <<>>
  /\ bufTimer = NoTimer
  /\ batches = <<>>
  /\ settled = EmptyMap
  /\ addedAt = EmptyMap
  /\ nextItem = 1
  /\ sessionToPersistent = EmptyMap
  /\ idMaps = EmptyMap
  /\ syncTimers = EmptyMap
  /\ ptodos = <<>>
  /\ passes = EmptyMap
  /\ nextPass = 1
  /\ lastDone = <<>>
  /\ build = NoBuild
  /\ reqs = EmptyMap
  /\ lastCall = NoCall
  /\ compacting = NoCompaction
  /\ now = 0
  /\ armedAt = EmptyMap
  /\ savedAt = EmptyMap

\* MemoryPlugin awaits the health check before it returns its hooks
Init == InitPlugin /\ healthy = TRUE

\* ------------------------------------------- the capture pipeline alone
OkSets(memories) == { {}, { memories[i] : i \in 1..Len(memories) } }

NextCapture ==
  \/ \E s \in Sessions, memories \in MemoryLists :
       \E ok \in OkSets(memories) : EventMessagePartUpdated(s, memories, ok, {})
  \/ \E s \in Sessions, c \in Contents :
       \E ok \in OkSets(<<c>>) : EventSessionError(s, c, ok)
  \/ \E s \in Sessions : EventSessionDeleted(s)

SpecCapture == Init /\ [][NextCapture]_vars

\* C1: between two deletions of a session, at most one store call is issued
\* for a given content in that session.
C1_AtMostOneStoreCall ==
  \A x \in DOMAIN storeCalls : storeCalls[x] <= 1

\* a content whose only store call failed was submitted again and dropped
C1_Witness ==
  \E x \in dropped : storeCalls[x] = 1 /\ x[2] \notin remembered

\* ------------------------------------------------- the plugin's hooks
HookTitles == {"title"}
HookTodoLists == { <<>>, <<[id |-> 1, content |-> <<97>>, status |-> "pending", priority |-> "medium"]>> }
HookContent == <<65, 97>>
HookFiles == { {}, {"src/a.ts"} }
HookTextKinds == {"short", "directive"}

\* every hook, for one session
LifecycleSessions == {1}

Next ==
  \/ \E s \in LifecycleSessions, title \in HookTitles : EventSessionUpdated(s, title)
  \/ \E s \in LifecycleSessions, todos \in HookTodoLists : EventTodoUpdated(s, todos)
  \/ \E s \in LifecycleSessions, files \in HookFiles :
       EventMessagePartUpdated(s, <<HookContent>>, {HookContent}, files)
  \/ \E ok \in OkSets(<<HookContent>>) : EventSessionError(Unknown, HookContent, ok)
  \/ \E s \in LifecycleSessions : EventSessionIdle(s)
  \/ \E t \in 1..MaxTimers : IdleTimerFire(t)
  \/ \E s \in LifecycleSessions : EventSessionDeleted(s)
  \/ \E s \in LifecycleSessions, kind \in HookTextKinds : ChatMessage(s, kind)
  \/ \E s \in LifecycleSessions : TransformStart(s)
  \/ \E c \in 1..MaxCalls, result \in {"null", "injection"} : TransformResolve(c, result)

Spec == Init /\ [][Next]_vars

\* the injection hook with the hooks that feed or reset it
NextInject ==
  \/ \E s \in Sessions, kind \in HookTextKinds : ChatMessage(s, kind)
  \/ \E s \in Sessions : TransformStart(s)
  \/ \E c \in 1..MaxCalls, result \in {"null", "injection"} : TransformResolve(c, result)
  \/ \E s \in Sessions : EventSessionDeleted(s)

SpecInject == Init /\ [][NextInject]_vars

\* the idle-save debounce with the hooks that feed or cancel it
NextIdle ==
  \/ \E s \in Sessions, title \in HookTitles : EventSessionUpdated(s, title)
  \/ \E s \in Sessions : EventSessionIdle(s)
  \/ \E t \in 1..MaxTimers : IdleTimerFire(t)
  \/ \E s \in Sessions : EventSessionDeleted(s)

SpecIdle == Init /\ [][NextIdle]_vars

\* C3: between two deletions of a session, at most one injection is added
\* to the system prompt for it.
C3_AtMostOneInjection ==
  \A s \in Sessions : injections[s] <= 1

\* C4: an idle-save timer that was pending when its session was deleted is
\* out of the timer queue for good and never issues a working-state save.
C4_CancelledIdleTimerNeverFires ==
  \A t \in cancelledTimers : ~Has(timers, t) /\ t \notin savedBy

\* a deletion cancelled a pending idle timer while another idle timer did
\* fire and save
C4_Witness ==
  /\ cancelledTimers # {}
  /\ savedBy # {}

HasEntry(s) ==
  \/ Has(sessionMeta, s)
  \/ Has(sessionTodos, s)
  \/ Has(sessionFilesTouched, s)
  \/ Has(sessionMessageCounts, s)
  \/ s \in injectedSessions
  \/ Has(capturedHashes, s)

\* C5: from the handling of session.deleted for S until the next hook call
\* that names S, none of the per-session maps has an entry for S.
C5_DeletedHasNoEntries ==
  \A s \in deleted : ~HasEntry(s)

\* ------------------------------------------------ the content buffer alone
NextBuffer ==
  \/ Add
  \/ Flush
  \/ \E t \in 1..MaxTimers : FlushTimerFire(t)
  \/ \E b \in 1..MaxAdds, outcome \in {"resolved", "rejected"} : OnFlushSettle(b, outcome)

SpecBuffer == Init /\ [][NextBuffer]_vars

AddedIds == DOMAIN addedAt
BufferedIds == { items[i].id : i \in 1..Len(items) }
BatchIds(b) == { batches[b][i].id : i \in 1..Len(batches[b]) }
BatchesOf(id) == { b \in 1..Len(batches) : id \in BatchIds(b) }
OccurrencesIn(seq, id) == Cardinality({ i \in 1..Len(seq) : seq[i].id = id })

\* C2: every item passed to add is either still buffered (once, with the
\* flush timer armed, and in no batch) or has been handed to onFlush in
\* exactly one batch, once, and that batch is the first one taken after the
\* add: an item added while a flush is in flight is not in that flush's batch.
C2_NoLossNoDuplicate ==
  \A id \in AddedIds :
    \/ /\ OccurrencesIn(items, id) = 1
       /\ BatchesOf(id) = {}
       /\ bufTimer # NoTimer /\ Has(timers, bufTimer)
    \/ /\ OccurrencesIn(items, id) = 0
       /\ BatchesOf(id) = {addedAt[id] + 1}
       /\ OccurrencesIn(batches[addedAt[id] + 1], id) = 1

\* an item was added while an earlier flush was still in flight, and was
\* then handed over in the next batch, which is still in flight too
C2_Witness ==
  \E id \in AddedIds :
    /\ addedAt[id] >= 1
    /\ ~Has(settled, addedAt[id])
    /\ BatchesOf(id) = {addedAt[id] + 1}
    /\ Len(batches[addedAt[id]]) = BufferMaxSize

\* ------------------------------------------- the todo reconciliation engine
Todo(id, content, status) ==
  [id |-> id, content |-> content, status |-> status, priority |-> "medium"]

\* "a", "A " and "b"
TodoA == <<97>>
TodoASpaced == <<65, 32>>
TodoB == <<98>>

\* the task-list snapshots the host hands to onTodoUpdated
TodoLists ==
  { <<>>,
    <<Todo(1, TodoA, "pending")>>,
    <<Todo(1, TodoASpaced, "completed")>>,
    <<Todo(1, TodoA, "cancelled")>>,
    <<Todo(1, TodoA, "pending"), Todo(2, TodoASpaced, "pending")>>,
    <<Todo(1, TodoB, "pending"), Todo(2, TodoA, "pending")>> }

PassIds == 1..MaxPasses

NextTodo ==
  \/ \E s \in Sessions, todos \in TodoLists : OnTodoUpdated(s, todos)
  \/ \E t \in DOMAIN timers : SyncTimerFire(t)
  \/ \E q \in PassIds, ok \in BOOLEAN : PassListed(q, ok)
  \/ \E q \in PassIds, ok \in BOOLEAN : PassUpdated(q, ok)
  \/ \E q \in PassIds, ok \in BOOLEAN : PassCreated(q, ok)
  \/ \E q \in PassIds, ok \in BOOLEAN : PassCancelled(q, ok)
  \/ \E s \in Sessions : CleanupSyncState(s)
  \/ \E s \in Sessions : EventSessionDeleted(s)

SpecTodo == Init /\ [][NextTodo]_vars

\* every syncTodos invocation on record: the suspended ones and the last returned
PassRecords == { passes[q] : q \in DOMAIN passes } \cup { lastDone[j] : j \in DOMAIN lastDone }

\* C6: once session.deleted has been handled for a session, the session has no
\* pending todo-sync timer and no id mapping, and no reconciliation pass for
\* it starts.
C6_DeletedHasNoSyncState ==
  \A s \in deleted :
    /\ ~Has(syncTimers, s)
    /\ ~Has(sessionToPersistent, s)
    /\ \A p \in PassRecords : p.sid = s => ~p.afterDelete

\* C7: a pass that has returned issued a cancel for every persistent task its
\* session's id mapping held, at the start of the pass, for an ephemeral id
\* absent from the snapshot (the empty snapshot included) when that task was
\* neither completed nor cancelled, and issued none for a completed one.
C7_ImplicitCancellation ==
  \A j \in DOMAIN lastDone :
    LET p == lastDone[j]
    IN \A e \in p.mapped0 :
         (e[1] \notin TodoIdsOf(p.todos) /\ e[2] \in DOMAIN p.store0) =>
           /\ p.store0[e[2]] \notin {"completed", "cancelled"} => e[2] \in p.cancelIssued
           /\ p.store0[e[2]] = "completed" => e[2] \notin p.cancelIssued

\* C8: no step changes the stored status of a persistent task from completed
\* to cancelled.
C8_CompletedNeverCancelled ==
  [][\A pid \in DOMAIN ptodos :
       ptodos[pid].status = "completed" => ptodos'[pid].status # "cancelled"]_vars

\* C9: the store holds at most one task per normalized content.
C9_OneTaskPerContent ==
  \A a \in DOMAIN ptodos, b \in DOMAIN ptodos :
    a # b => normalize(ptodos[a].content) # normalize(ptodos[b].content)

\* Contents that differ at most in letter case and in leading or trailing
\* whitespace, listed class by class.
ContentClasses == { {TodoA, TodoASpaced}, {TodoB} }

SameTaskText(c, d) == \E class \in ContentClasses : c \in class /\ d \in class

ListedAs(p, content) == { pid \in DOMAIN p.snap : SameTaskText(p.snap[pid].content, content) }

Differs(p, pid, st) ==
  \/ p.snap[pid].status # st.status
  \/ p.snap[pid].priority # st.priority
  \/ ~SameTaskText(p.snap[pid].content, st.content)

\* C10 as stated: an ephemeral task whose text matches a listed persistent
\* task up to case and outer whitespace is resolved to a task of that text,
\* with an update when status, priority or normalized content differ and no
\* create.
C10_ReconciledToSameText ==
  \A p \in PassRecords : \A j \in DOMAIN p.log :
    LET st == p.todos[p.log[j].idx]
        e == p.log[j]
    IN ListedAs(p, st.content) # {} =>
         /\ e.kind # "create"
         /\ e.pid \in ListedAs(p, st.content)
         /\ Differs(p, e.pid, st) => e.kind = "update"

\* C10 amended: when the listing of the pass holds a task of that text, the
\* pass resolves the ephemeral task to the listed task its id mapping names,
\* or without one to the last listed task of that text; it issues an update
\* exactly when status, priority or normalized content differ, and no create.
C10_ReconciledByMappingThenText ==
  \A p \in PassRecords : \A j \in DOMAIN p.log :
    LET st == p.todos[p.log[j].idx]
        e == p.log[j]
    IN ListedAs(p, st.content) # {} =>
         /\ e.kind # "create"
         /\ IF e.mapped \in DOMAIN p.snap
            THEN e.pid = e.mapped
            ELSE /\ e.pid \in ListedAs(p, st.content)
                 /\ \A other \in ListedAs(p, st.content) : other <= e.pid
         /\ e.kind = "update" <=> Differs(p, e.pid, st)

\* a pass met its task renamed to another case and spacing with a new status,
\* found it through the id mapping and issued an update
C10_Witness ==
  \E p \in PassRecords : \E j \in DOMAIN p.log :
    LET st == p.todos[p.log[j].idx]
        e == p.log[j]
    IN /\ e.kind = "update"
       /\ e.mapped = e.pid
       /\ e.pid \in DOMAIN p.snap
       /\ p.snap[e.pid].content # st.content
       /\ SameTaskText(p.snap[e.pid].content, st.content)
       /\ p.snap[e.pid].status # st.status

\* ------------------------------------------------- the injection engine
ContextSizes == {NoContext, 0, 1, 5996, 8000, 32000, 128000, 200000}

StateShapes ==
  { [stateKind |-> "null", stateLen |-> 0], [stateKind |-> "empty", stateLen |-> 0] }
  \cup { [stateKind |-> "object", stateLen |-> n] : n \in {8, 50, 400, 3000} }

\* what the store may answer to the aggregate-context request
Answers ==
  { [answered |-> TRUE, stateKind |-> st.stateKind, stateLen |-> st.stateLen,
     constraints |-> c, failed |-> f, keyMemories |-> k, otherMemories |-> o,
     crossProject |-> x, episodes |-> e] :
      st \in StateShapes, c \in {0, 40, 300, 2500}, f \in {0, 100}, k \in {0, 200},
      o \in {0, 1}, x \in {0, 150}, e \in {0, 120} }

InitEngine == InitPlugin /\ healthy \in BOOLEAN

NextEngine ==
  \/ \E context \in ContextSizes, messageCount \in MessageCounts :
       BuildStart(context, messageCount)
  \/ \E data \in Answers \cup {NullData} : BuildResolve(data)
  \/ BuildReturn

SpecEngine == InitEngine /\ [][NextEngine]_vars

Assembled == build.pc = "done" /\ build.result.kind = "content"

\* C11: every tier-1 section appears in the assembled text, in full or
\* truncated with the marker.
C11_TierOneNeverDropped ==
  Assembled =>
    \A j \in DOMAIN build.sections :
      build.sections[j].tier = 1 =>
        \E k \in DOMAIN build.result.pieces :
          LET piece == build.result.pieces[k]
          IN /\ piece.label = build.sections[j].label
             /\ piece.truncated \/ piece.len = build.sections[j].len

\* characters the first j sections take with their separators
RECURSIVE PrefixCost(_, _)
PrefixCost(sections, j) ==
  IF j = 0 THEN 0 ELSE PrefixCost(sections, j - 1) + sections[j].len + 2

\* index of the first section that does not fit, one past the end when all fit
FirstMisfit(sections, budget) ==
  LET misfits == { j \in DOMAIN sections : PrefixCost(sections, j) > budget }
  IN IF misfits = {} THEN Len(sections) + 1
     ELSE CHOOSE j \in misfits : \A other \in misfits : j <= other

\* C12: the assembled text is a prefix of the sections in ascending tier and
\* build order: the sections before the first one that does not fit appear in
\* full, nothing after it appears, and a truncated piece is that first
\* non-fitting section and is of tier 1.
C12_PriorityPrefix ==
  Assembled =>
    LET sections == build.sections
        pieces == build.result.pieces
        k == FirstMisfit(sections, build.budget)
    IN /\ \A a \in DOMAIN sections, b \in DOMAIN sections :
            a < b => sections[a].tier <= sections[b].tier
       /\ Len(pieces) \in {k - 1, k}
       /\ Len(pieces) <= Len(sections)
       /\ \A j \in DOMAIN pieces :
            /\ pieces[j].label = sections[j].label
            /\ j < k => ~pieces[j].truncated /\ pieces[j].len = sections[j].len
            /\ j = k => pieces[j].truncated /\ sections[j].tier = 1

\* a section that would fit lies behind the first non-fitting one and is left out
C12_Witness ==
  /\ Assembled
  /\ LET sections == build.sections
         k == FirstMisfit(sections, build.budget)
     IN /\ k <= Len(sections)
        /\ Len(build.result.pieces) = k - 1
        /\ \E j \in DOMAIN sections :
             /\ j > k
             /\ sections[j].len + 2 <= build.budget - PrefixCost(sections, k - 1)

\* C13: the text assembled from tiers 1-4 is no longer than the budget.
C13_AssembledFitsBudget ==
  Assembled => JoinedLen(build.result.pieces) <= build.budget

\* a tier-1 section was truncated behind a section kept in full
C13_Witness ==
  /\ Assembled
  /\ Len(build.result.pieces) = 2
  /\ build.result.pieces[2].truncated
  /\ build.messageCount > 10

\* distances to larger context sizes compared with the drawn one
ContextSteps == {1, 4, 5, 6, 10, 1000, 200000}

BudgetInRange(budget) == MIN_BUDGET_CHARS <= budget /\ budget <= MAX_BUDGET_CHARS

NoLargerBudgetBelow(context, budget) ==
  /\ \A step \in ContextSteps : budget <= computeBudget(context + step)
  /\ \A larger \in ContextSizes : larger >= context => budget <= computeBudget(larger)

\* C14 as stated: the budget does not decrease as the supplied context size
\* grows, 0 included, lies in [600, 8000] for a supplied size and is 3000
\* when no size is supplied.
C14_MonotoneFromZero ==
  build.pc # "idle" =>
    /\ build.context = NoContext => build.baseBudget = DEFAULT_BUDGET_CHARS
    /\ build.context >= 0 =>
         /\ BudgetInRange(build.baseBudget)
         /\ NoLargerBudgetBelow(build.context, build.baseBudget)

\* C14 amended: the budget does not decrease as a positive context size
\* grows, lies in [600, 8000] for a supplied size, and is 3000 when no size
\* is supplied or the size is 0.
C14_MonotoneOverPositive ==
  build.pc # "idle" =>
    /\ build.context \in {NoContext, 0} => build.baseBudget = DEFAULT_BUDGET_CHARS
    /\ build.context >= 0 => BudgetInRange(build.baseBudget)
    /\ build.context > 0 => NoLargerBudgetBelow(build.context, build.baseBudget)

\* a supplied size whose budget lies strictly between the floor and the cap
C14_Witness ==
  /\ build.pc = "await"
  /\ build.context = 32000
  /\ build.baseBudget = 3200

\* percentage of the undecayed budget the claim names for a message count
ClaimedPercent == (1 :> 100) @@ (20 :> 70) @@ (50 :> 50) @@ (100 :> 35)

\* C15: at 1, 20, 50 and 100 messages the budget is 100, about 70, about 50
\* and about 35 percent of the undecayed budget (within one percentage
\* point), and at no message count below 35 percent up to rounding.
C15_DecayRatios ==
  build.pc # "idle" =>
    /\ build.messageCount \in DOMAIN ClaimedPercent =>
         LET claimed == ClaimedPercent[build.messageCount] * build.baseBudget
             actual == 100 * build.budget
         IN /\ actual <= claimed + build.baseBudget
            /\ claimed <= actual + build.baseBudget
    /\ 100 * build.budget + 50 >= 35 * build.baseBudget

NothingStored(data) ==
  /\ data.answered
  /\ data.stateKind \in {"null", "empty"}
  /\ data.constraints = 0 /\ data.failed = 0
  /\ data.keyMemories = 0 /\ data.otherMemories = 0
  /\ data.crossProject = 0 /\ data.episodes = 0

\* C16: the build returns null exactly when the aggregate-context request
\* failed, and the self-awareness notice when the store answered and holds
\* nothing at all.
C16_NullIffFailedNoticeIfEmpty ==
  build.pc = "done" =>
    /\ build.result.kind = "null" <=> ~build.data.answered
    /\ NothingStored(build.data) => build.result.kind = "notice"

\* C17 as stated: after a failed start-up health check every injection
\* attempt yields the null sentinel.
C17_UnhealthyAlwaysNull ==
  ~healthy /\ build.pc = "done" => build.result.kind = "null"

\* C17 amended: after a failed start-up health check an injection attempt
\* yields the null sentinel exactly when its own aggregate-context request
\* failed, and then never the notice.
C17_UnhealthyNullIffRequestFailed ==
  ~healthy /\ build.pc = "done" =>
    IF build.data.answered THEN build.result.kind \in {"notice", "content"}
    ELSE build.result.kind = "null"

\* the store was down at start-up and is still down at the injection attempt
C17_Witness ==
  /\ ~healthy
  /\ build.pc = "done"
  /\ ~build.data.answered
  /\ build.result.kind = "null"

NextRequest ==
  \/ \E op \in ClientOps : Call(op)
  \/ \E id \in 1..MaxReqs : FetchRejects(id)
  \/ \E id \in 1..MaxReqs : TimeoutFires(id)
  \/ \E id \in 1..MaxReqs, ok \in BOOLEAN : HeadersArrive(id, ok)
  \/ \E id \in 1..MaxReqs, kind \in BodyKinds : BodyArrives(id, kind)
  \/ \E id \in 1..MaxReqs : BodyFails(id)
  \/ Tick

SpecRequest == Init /\ [][NextRequest]_vars

FailureCauses == {"network", "timeout", "status", "empty", "unparsable"}

FailureValue(op) == IF op \in {"saveState", "isServiceHealthy"} THEN "false" ELSE "null"

\* C18: every settled client operation resolved, none rejected; after a
\* network error, a timeout abort, a non-success status, an empty body or an
\* unparsable body it resolved to null (false for saveState and
\* isServiceHealthy).
C18_NeverRejects ==
  \A id \in DOMAIN reqs :
    reqs[id].pc = "settled" =>
      /\ reqs[id].settlement = "resolved"
      /\ reqs[id].cause \in FailureCauses => reqs[id].value = FailureValue(reqs[id].op)

\* JSON.parse threw inside saveState's request and the caller got false
C18_Witness ==
  \E id \in DOMAIN reqs :
    /\ reqs[id].pc = "settled"
    /\ reqs[id].op = "saveState"
    /\ reqs[id].cause = "unparsable"
    /\ reqs[id].value = "false"

\* C19: a call is settled once more than its own timeout has passed since
\* it was made, whatever the server does.
C19_SettledAfterTimeout ==
  \A id \in DOMAIN reqs :
    now > reqs[id].at + TimeoutOf(reqs[id].op) => reqs[id].pc = "settled"

NextDebounce ==
  \/ \E s \in Sessions : TimedIdle(s)
  \/ \E t \in 1..MaxTimers : TimedIdleFire(t)
  \/ \E s \in Sessions : EventSessionDeleted(s)
  \/ Tick

SpecDebounce == Init /\ [][NextDebounce]_vars

\* idle events of the session of timer t that happened up to timer id last
IdleEventsOf(t, last) ==
  { u \in DOMAIN armedAt : armedAt[u].sid = armedAt[t].sid /\ u <= last }

\* C20: a session has at most one idle-save timer pending, the one its last
\* idle event armed; a save is issued only when the full delay has passed
\* since every idle event of the session up to then; two saves of a session
\* never stem from one burst; and the timer of the last idle event of a
\* burst has issued its save once the delay is over, unless the session
\* was deleted.
C20_IdleSaveDebounced ==
  /\ \A t \in DOMAIN timers :
       timers[t].kind = "idle" =>
         /\ Has(idleTimers, timers[t].sid) /\ idleTimers[timers[t].sid] = t
         /\ \A u \in DOMAIN timers : timers[u] = timers[t] => u = t
  /\ \A t \in DOMAIN savedAt :
       \A u \in IdleEventsOf(t, savedAt[t].last) :
         savedAt[t].at >= armedAt[u].at + IDLE_SAVE_DELAY_MS
  /\ \A t \in DOMAIN savedAt, u \in DOMAIN savedAt :
       t < u /\ armedAt[t].sid = armedAt[u].sid => armedAt[u].at >= savedAt[t].at
  /\ \A t \in DOMAIN armedAt :
       now > armedAt[t].at + IDLE_SAVE_DELAY_MS =>
         \/ Has(savedAt, t)
         \/ t \in cancelledTimers
         \/ \E u \in DOMAIN armedAt : u > t /\ armedAt[u].sid = armedAt[t].sid

\* a burst of two idle events of one session within the delay, then one save
\* a full delay after the second
C20_Witness ==
  \E t \in DOMAIN savedAt, u \in DOMAIN armedAt :
    /\ u < t
    /\ armedAt[u].sid = armedAt[t].sid
    /\ armedAt[u].at < armedAt[t].at
    /\ armedAt[t].at < armedAt[u].at + IDLE_SAVE_DELAY_MS
    /\ savedAt[t].at = armedAt[t].at + IDLE_SAVE_DELAY_MS
    /\ ~Has(savedAt, u)

NextSyncDebounce ==
  \/ \E s \in Sessions, todos \in TodoLists \cup {<<>>} : TimedTodoUpdated(s, todos)
  \/ \E t \in 1..MaxTimers : TimedSyncFire(t)
  \/ Tick

SpecSyncDebounce == Init /\ [][NextSyncDebounce]_vars

\* C21: a session has at most one debounce timer pending, the one its last
\* onTodoUpdated call armed; a reconciliation pass starts only when the
\* debounce window has passed since every earlier call for the session, and
\* runs with the task list of the last of them; two passes of a session
\* never stem from one burst; and the timer of the last call of a burst has
\* started its pass once the window and one clock step are over, whatever
\* other sessions do.
C21_TodoSyncDebounced ==
  /\ \A t \in DOMAIN timers :
       timers[t].kind = "sync" =>
         /\ Has(syncTimers, timers[t].sid) /\ syncTimers[timers[t].sid] = t
         /\ \A u \in DOMAIN timers : timers[u].sid = timers[t].sid => u = t
  /\ \A t \in DOMAIN savedAt :
       /\ \A u \in IdleEventsOf(t, savedAt[t].last) :
            /\ u <= t
            /\ savedAt[t].at >= armedAt[u].at + SYNC_DEBOUNCE_MS
       /\ savedAt[t].todos = armedAt[t].todos
  /\ \A t \in DOMAIN savedAt, u \in DOMAIN savedAt :
       t < u /\ armedAt[t].sid = armedAt[u].sid => armedAt[u].at >= savedAt[t].at
  /\ \A t \in DOMAIN armedAt :
       now >= armedAt[t].at + SYNC_DEBOUNCE_MS + TimeUnitMs =>
         \/ Has(savedAt, t)
         \/ \E u \in DOMAIN armedAt : u > t /\ armedAt[u].sid = armedAt[t].sid

\* two calls for one session at the same instant with different lists, then
\* one pass, with the second list
C21_Witness ==
  \E t \in DOMAIN savedAt, u \in DOMAIN armedAt :
    /\ u < t
    /\ armedAt[u].sid = armedAt[t].sid
    /\ armedAt[u].at = armedAt[t].at
    /\ armedAt[u].todos # armedAt[t].todos
    /\ savedAt[t].todos = armedAt[t].todos
    /\ ~Has(savedAt, u)

NextBufferTimed ==
  \/ TimedAdd
  \/ TimedFlush
  \/ \E t \in 1..MaxTimers : TimedFlushFire(t)
  \/ Tick

SpecBufferTimed == Init /\ [][NextBufferTimed]_vars

RECURSIVE Flatten(_)
Flatten(seqs) == IF seqs = <<>> THEN <<>> ELSE seqs[1] \o Flatten(Tail(seqs))

\* C22: the buffer never holds maxSize items: the add that reaches maxSize
\* flushes them at once; a timer-driven flush happens exactly flushIntervalMs
\* after the first item of its batch was added, later adds notwithstanding,
\* and buffered items never wait longer than that; the batches, each handed
\* to onFlush in one call, followed by the buffered items are all added
\* items in insertion order.
C22_FlushTriggers ==
  /\ Len(items) < BufferMaxSize
  /\ \A b \in DOMAIN savedAt :
       /\ savedAt[b].by = "full" =>
            /\ Len(batches[b]) = BufferMaxSize
            /\ savedAt[b].at = batches[b][BufferMaxSize].at
       /\ savedAt[b].by = "timer" =>
            savedAt[b].at = batches[b][1].at + FlushIntervalMs
  /\ items # <<>> => now <= items[1].at + FlushIntervalMs
  /\ \A b \in 1..Len(batches) : batches[b] # <<>>
  /\ LET all == Flatten(batches) \o items
     IN /\ Len(all) = nextItem - 1
        /\ \A i \in 1..Len(all) : all[i].id = i

\* a timer-driven flush whose batch holds an item added after the first one
C22_Witness ==
  \E b \in DOMAIN savedAt :
    /\ savedAt[b].by = "timer"
    /\ Len(batches[b]) >= 2
    /\ batches[b][Len(batches[b])].at > batches[b][1].at
    /\ savedAt[b].at = batches[b][1].at + FlushIntervalMs

\* C23 as stated: the pending flush timer is the one armed by the latest
\* add, and a timer-driven flush happens a full interval or more after the
\* last add of its batch.
C23_FlushTimerResetByAdd ==
  /\ bufTimer # NoTimer /\ items # <<>> =>
       armedAt[bufTimer].at = items[Len(items)].at
  /\ \A b \in DOMAIN savedAt :
       savedAt[b].by = "timer" =>
         savedAt[b].at >= batches[b][Len(batches[b])].at + FlushIntervalMs

\* C23 amended: an add while the flush timer is pending leaves the timer as
\* it is: the one pending flush timer is the one armed by the first buffered
\* item, a timer-driven flush happens no earlier than a full interval after
\* the first add of its batch, and no timer flushes more than one batch.
C23_FlushTimerArmedByFirstAdd ==
  /\ \A t \in DOMAIN timers : timers[t].kind = "flush" => t = bufTimer
  /\ bufTimer # NoTimer =>
       /\ Has(timers, bufTimer)
       /\ items # <<>>
       /\ armedAt[bufTimer].at = items[1].at
  /\ \A b \in DOMAIN savedAt :
       savedAt[b].by = "timer" =>
         /\ savedAt[b].at >= batches[b][1].at + FlushIntervalMs
         /\ \A c \in DOMAIN savedAt :
              savedAt[c].by = "timer" /\ savedAt[c].timer = savedAt[b].timer => c = b

\* the timer fired less than a full interval after the last add of its batch
C23_Witness ==
  \E b \in DOMAIN savedAt :
    /\ savedAt[b].by = "timer"
    /\ savedAt[b].at < batches[b][Len(batches[b])].at + FlushIntervalMs

\* C24: when onFlush rejected for a batch, flush() resolved, no item of the
\* batch is buffered or in another batch, and every item added after the
\* batch was taken is still buffered or in the first batch taken after its add.
C24_LossyFlush ==
  \A b \in DOMAIN settled :
    settled[b].onFlush = "rejected" =>
      /\ settled[b].flush = "resolved"
      /\ \A id \in BatchIds(b) : OccurrencesIn(items, id) = 0 /\ BatchesOf(id) = {b}
      /\ \A id \in AddedIds :
           addedAt[id] >= b =>
             \/ OccurrencesIn(items, id) = 1 /\ BatchesOf(id) = {}
             \/ OccurrencesIn(items, id) = 0 /\ BatchesOf(id) = {addedAt[id] + 1}

\* an item added while the flush that failed was in flight is still buffered
C24_Witness ==
  \E b \in DOMAIN settled, i \in 1..Len(items) :
    /\ settled[b].onFlush = "rejected"
    /\ addedAt[items[i].id] = b
    /\ items[i].id <= settled[b].last

\* C25: the promise of the latest processEvent call resolved, and each of
\* its candidates was either skipped as a duplicate or handed to the store,
\* also behind a store call that failed.
C25_DispatchFailuresSwallowed ==
  /\ captureLog.promise = "resolved"
  /\ \A i \in 1..Len(captureLog.memories) :
       \/ captureLog.memories[i] \in captureLog.skipped
       \/ \E j \in 1..Len(captureLog.calls) :
            captureLog.calls[j].content = captureLog.memories[i]

\* the first store call of an event failed and the second candidate was
\* dispatched all the same
C25_Witness ==
  /\ Len(captureLog.calls) = 2
  /\ captureLog.calls[1].outcome = "failed"
  /\ captureLog.calls[2].content # captureLog.calls[1].content

\* C26: every candidate an event of a session yielded has been dedup-checked
\* by the time the next event is examined, and no store call was issued by
\* an event that was not the first of its session to yield that content.
C26_ArrivalOrderPerSession ==
  /\ captureLog.late = {}
  /\ \A x \in captureLog.seen :
       /\ Has(capturedHashes, x[1])
       /\ HashOf[x[2]] \in capturedHashes[x[1]]
  /\ \A x \in DOMAIN storeCalls : storeCalls[x] >= 1 => x \in captureLog.seen

\* a second event of a session yielded only a content an earlier event of
\* the session had dispatched, while the other session had events as well
C26_Witness ==
  /\ Len(captureLog.memories) = 1
  /\ captureLog.calls = <<>>
  /\ storeCalls[<<captureLog.key, captureLog.memories[1]>>] = 1
  /\ \E y \in captureLog.seen : y[1] # captureLog.key

\* a store request of the plugin is in flight: the aggregate-context request
\* of a suspended system.transform call
StorePending == DOMAIN transformCalls # {}

\* the event hook can take each kind of event
HookTakesEvents ==
  \A s \in LifecycleSessions :
    /\ ENABLED EventSessionUpdated(s, "title")
    /\ ENABLED EventTodoUpdated(s, <<>>)
    /\ ENABLED EventMessagePartUpdated(s, <<HookContent>>, {}, {"src/a.ts"})
    /\ ENABLED EventSessionError(Unknown, HookContent, {})
    /\ ENABLED EventSessionDeleted(s)
    /\ nextTimer <= MaxTimers => ENABLED EventSessionIdle(s)

\* a step in which the hook or its timer callback issued a store call also
\* did the rest of the handling
HandlingNotDelayed ==
  /\ \A t \in savedBy' \ savedBy :
       /\ ~Has(timers', t)
       /\ \A s \in DOMAIN idleTimers' : idleTimers'[s] # t
  /\ (\E x \in DOMAIN storeCalls : storeCalls'[x] > storeCalls[x]) =>
       /\ captureLog'.promise = "resolved"
       /\ captureLog'.key \notin deleted'

\* C27: while a store request is in flight the hook takes every event, and
\* the step that issues a store call completes the handling of its event
\* without waiting for the answer.
C27_HookNeverWaits ==
  /\ [](StorePending => HookTakesEvents)
  /\ [][HandlingNotDelayed]_vars

\* the idle timer's save and a failed store call were issued while an
\* aggregate-context request was in flight
C27_Witness ==
  /\ StorePending
  /\ savedBy # {}
  /\ Len(captureLog.calls) = 1
  /\ captureLog.calls[1].outcome = "failed"

\* a syncTodos invocation returns in this step; lastDone' holds its record
PassReturns ==
  \/ DOMAIN passes \ DOMAIN passes' # {}
  \/ nextPass' > nextPass /\ DOMAIN passes' = DOMAIN passes

\* the ephemeral ids the session's idMap holds
MappedIds(table, maps, s) ==
  IF Has(table, s) /\ Has(maps, table[s])
  THEN { e[1] : e \in OMapEntries(maps[table[s]]) }
  ELSE {}

\* C28: when a pass returns, every ephemeral id left in its session's id
\* mapping is an id of the snapshot the pass processed.
C28_StaleMappingsPruned ==
  [][PassReturns =>
       MappedIds(sessionToPersistent', idMaps', lastDone'[1].sid)
         \subseteq TodoIdsOf(lastDone'[1].todos)]_vars

\* C28 for a non-empty snapshot with no other pass under way: the cancellation
\* loop is reached, and the mapping of an absent id is kept when its
\* persistent task was matched by another task of the snapshot.
C28_PrunedAfterNonEmptySnapshot ==
  [][(PassReturns /\ lastDone'[1].todos # <<>> /\ DOMAIN passes' = {}) =>
       MappedIds(sessionToPersistent', idMaps', lastDone'[1].sid)
         \subseteq TodoIdsOf(lastDone'[1].todos)]_vars

\* ------------------------------------------------ getBootstrapTodos alone
\* how far above the requested limit a listing can go
MaxOverLimit == 1

RunLengths == {0, 1, 2, BootstrapLimit - 1} \cup (BootstrapLimit..(BootstrapLimit + MaxOverLimit))

Run(status, n) == [j \in 1..n |-> [status |-> status, priority |-> "medium"]]

\* what the store can answer: tasks of every status, in two orders, within
\* and beyond the requested limit
Listings ==
  { Run("pending", a) \o Run("completed", b) \o Run("in_progress", c) \o Run("cancelled", d) :
      a \in RunLengths, b \in {0, 1, BootstrapLimit}, c \in {0, 1, BootstrapLimit}, d \in {0, 1} }
  \cup
  { Run("cancelled", d) \o Run("in_progress", c) \o Run("pending", a) :
      a \in {0, 1}, c \in RunLengths, d \in {0, 1} }

ListResults == {ListFailed} \cup { [ok |-> TRUE, todos |-> l] : l \in Listings }

NextBootstrapTodos == \E result \in ListResults : GetBootstrapTodos(result)

SpecBootstrapTodos == Init /\ [][NextBootstrapTodos]_vars

BootstrapCalled == lastCall.fn = "getBootstrapTodos"

OpenListed(result) ==
  { j \in 1..Len(result.todos) : result.todos[j].status \in {"pending", "in_progress"} }

\* C29 as stated: the section holds only pending and in_progress tasks, at
\* most 20 of them whatever the listing, and there is no section exactly when
\* the list call failed or listed no such task.
C29_BootstrapTodosCapped ==
  BootstrapCalled =>
    LET result == lastCall.input
        out == lastCall.result
    IN /\ out.kind = "null" <=> (~result.ok \/ OpenListed(result) = {})
       /\ \A j \in 1..Len(out.items) : out.items[j].status \in {"pending", "in_progress"}
       /\ Len(out.items) <= BootstrapLimit

\* C29 amended: the section holds the pending and in_progress tasks of the
\* listing, all of them, hence at most 20 when the store
\* kept to the requested limit; there is no section exactly when the list
\* call failed or listed no such task.
C29_BootstrapTodosAsListed ==
  BootstrapCalled =>
    LET result == lastCall.input
        out == lastCall.result
    IN /\ out.kind = "null" <=> (~result.ok \/ OpenListed(result) = {})
       /\ \A j \in 1..Len(out.items) : out.items[j].status \in {"pending", "in_progress"}
       /\ Len(out.items) = Cardinality(OpenListed(result))
       /\ Len(result.todos) <= BootstrapLimit => Len(out.items) <= BootstrapLimit

\* a listing within the limit that holds finished tasks next to open ones was
\* rendered
C29_Witness ==
  /\ BootstrapCalled
  /\ lastCall.input.ok
  /\ Len(lastCall.input.todos) = BootstrapLimit
  /\ lastCall.result.kind = "section"
  /\ Len(lastCall.result.items) < Len(lastCall.input.todos)

\* -------------------------------------------- the text extractor alone
MaxUnits == 4

\* piece lengths: below the sentence threshold, above it, and long
PieceLengths == {10, 40, 90}

Pieces == [len : PieceLengths, signal : BOOLEAN]

Texts == UNION { [1..n -> Pieces] : n \in 1..MaxUnits }

NextExtract == \E text \in Texts : ExtractFromPart(text)

SpecExtract == Init /\ [][NextExtract]_vars

\* the first three pieces, in text order, that are longer than 20 characters
\* and contain a decision keyword
FirstMatches(text) ==
  LET matching == SelectSeq(Sentences(text), LAMBDA j : text[j].signal)
  IN SubSeq(matching, 1, IF Len(matching) < MaxDecisions THEN Len(matching) ELSE MaxDecisions)

\* C30: for a text of more than 100 characters the decision candidates are
\* the first three sentence-like units (pieces longer than 20 characters)
\* that match the decision pattern, all of them when fewer than three match,
\* in text order, and never more than three.
C30_FirstThreeMatches ==
  (lastCall.fn = "extractFromPart" /\ TextLength(lastCall.input) > MinTextLength) =>
    /\ lastCall.result = FirstMatches(lastCall.input)
    /\ Len(lastCall.result) <= MaxDecisions

\* ------------------------------------------ the tool-part extractor alone
ToolNames == {"write", "bash", "read", "grep"}
ToolStatuses == {"pending", "running", "completed", "error"}
OutputLengths == {10, 60, 2000}
TransientKinds == {"none", "file-not-found", "timeout", "multiple matches"}

\* e.g. "Error: ENOENT: no such file or directory", "error: request timed
\* out", "Error: Found multiple matches for oldString" all match the pattern
ToolOutputs == [len : OutputLengths, matches : BOOLEAN, transient : TransientKinds]

ToolParts == [tool : ToolNames, status : ToolStatuses, output : ToolOutputs]

NextExtractTool == \E part \in ToolParts : ExtractFromToolPart(part)

SpecExtractTool == Init /\ [][NextExtractTool]_vars

\* C31: a completed tool invocation whose output matches the failure pattern
\* but reports a transient, expected failure yields no failure candidate.
C31_TransientFailuresFiltered ==
  (/\ lastCall.fn = "extractFromToolPart"
   /\ lastCall.input.status = "completed"
   /\ lastCall.input.output.matches
   /\ lastCall.input.output.transient # "none") =>
    \A j \in 1..Len(lastCall.result) : lastCall.result[j].type # "failure"

\* a transform call for s gets past the marker check and calls buildInjection
AttemptStarts(s) == TransformStart(s) /\ nextCall' = nextCall + 1

\* a suspended transform call returns without pushing anything
ReturnsWithoutPush ==
  /\ DOMAIN transformCalls \ DOMAIN transformCalls' # {}
  /\ injections' = injections

\* C32: a transform call that returns without pushing leaves the injected
\* marker as it was, so that a call for an unmarked session attempts the
\* injection; a session that has received an injection is marked, and no call
\* for a marked session attempts it.
C32_RetryUntilInjected ==
  /\ [][ReturnsWithoutPush => injectedSessions' = injectedSessions]_vars
  /\ [](\A s \in Sessions :
          /\ (s \notin injectedSessions /\ nextCall <= MaxCalls) => ENABLED AttemptStarts(s)
          /\ s \in injectedSessions => ~ENABLED AttemptStarts(s)
          /\ injections[s] >= 1 => s \in injectedSessions)

\* two calls have returned and one of them pushed an injection: the other
\* got the null sentinel
C32_Witness ==
  /\ nextCall = 3
  /\ DOMAIN transformCalls = {}
  /\ \E s \in Sessions :
       /\ injections[s] = 1
       /\ s \in injectedSessions
       /\ \A t \in Sessions \ {s} : injections[t] = 0 /\ t \notin injectedSessions

\* ---------------------------------- the compaction hook and the buffer
BootstrapAnswers == {"null", "empty", "sections"}

NextCompacting ==
  \/ Add
  \/ \E t \in 1..MaxTimers : FlushTimerFire(t)
  \/ \E b \in 1..MaxAdds, outcome \in {"resolved", "rejected"} : OnFlushSettle(b, outcome)
  \/ \E s \in Sessions : CompactingStart(s)
  \/ CompactingFlushed
  \/ \E ok \in BOOLEAN : CompactingSaved(ok)
  \/ \E answer \in BootstrapAnswers : CompactingBootstrapped(answer)

SpecCompacting == Init /\ [][NextCompacting]_vars

InstructionPushed ==
  compacting.pc # "idle" /\ \E j \in 1..Len(compacting.context) : compacting.context[j] = Instruction

\* C33: the instruction is in the compaction context only when the flush the
\* hook awaited and the working-state save have settled, and it is there once
\* both have settled, whatever the outcome of the flush handler, of the save
\* and of the aggregate-context request.
C33_InstructionAfterFlushAndSave ==
  /\ InstructionPushed =>
       /\ compacting.flush # "pending"
       /\ compacting.batch # 0 => Has(settled, compacting.batch)
       /\ compacting.save # "pending"
  /\ (compacting.pc # "idle" /\ compacting.flush # "pending" /\ compacting.save # "pending")
       => InstructionPushed
  /\ compacting.pc \in {"bootstrap", "done"} => InstructionPushed

\* the hook returned with the instruction as its only addition after the
\* flush handler rejected, the save failed and the request returned null
C33_Witness ==
  /\ compacting.pc = "done"
  /\ compacting.flush = "rejected"
  /\ compacting.save = "failed"
  /\ compacting.bootstrap = "null"
  /\ compacting.context = <<Instruction>>

\* a flush timer of the buffer is in the host's timer queue
FlushTimerPending == \E t \in DOMAIN timers : timers[t].kind = "flush"

\* C34: between operations of the buffer a flush timer is pending exactly
\* when the buffer holds an item, the buffer's timer field names that timer,
\* and the buffer holds fewer than maxSize items.
C34_TimerIffItems ==
  /\ FlushTimerPending <=> Len(items) >= 1
  /\ bufTimer # NoTimer <=> Len(items) >= 1
  /\ bufTimer # NoTimer => (Has(timers, bufTimer) /\ timers[bufTimer].kind = "flush")
  /\ Len(items) < BufferMaxSize

\* a full buffer was flushed by add and a later add armed a new timer
C34_Witness ==
  /\ \E b \in 1..Len(batches) : Len(batches[b]) = BufferMaxSize
  /\ Len(items) = 1
  /\ FlushTimerPending

\* ------------------------------------ a pass repeated on the same snapshot
\* tasks the store holds from earlier runs of the plugin: the id mappings are
\* in memory only, the store persists
StoredTasks ==
  { [content |-> c, status |-> st, priority |-> "medium"] :
      c \in {TodoA, TodoB}, st \in {"pending", "completed"} }

\* the store's state before this run's first pass
StoreHolds(task) ==
  /\ nextPass = 1
  /\ Len(ptodos) < MaxTasks - 1
  /\ ptodos' = Append(ptodos, task)
  /\ UNCHANGED <<sessionToPersistent, idMaps, syncTimers, passes, nextPass, lastDone>>
  /\ UNCHANGED <<captureVars, sessionVars, timerVars, transformVars, bufferVars, ghostVars,
                 engineVars, clockVars>>

RepeatLists ==
  { <<Todo(1, TodoA, "pending")>>,
    <<Todo(1, TodoA, "pending"), Todo(2, TodoASpaced, "pending")>>,
    <<Todo(1, TodoA, "pending"), Todo(2, TodoASpaced, "completed")>>,
    <<Todo(1, TodoB, "in_progress"), Todo(2, TodoA, "pending")>>,
    <<Todo(2, TodoB, "completed")>> }

\* one session, one pass at a time, every store request succeeds
NextRepeat ==
  \/ \E task \in StoredTasks : StoreHolds(task)
  \/ \E todos \in RepeatLists : DOMAIN passes = {} /\ OnTodoUpdated(1, todos)
  \/ \E t \in DOMAIN timers : DOMAIN passes = {} /\ SyncTimerFire(t)
  \/ \E q \in PassIds : PassListed(q, TRUE)
  \/ \E q \in PassIds : PassUpdated(q, TRUE)
  \/ \E q \in PassIds : PassCreated(q, TRUE)
  \/ \E q \in PassIds : PassCancelled(q, TRUE)

SpecRepeat == Init /\ [][NextRepeat]_vars

IssuedNothing(p) ==
  /\ \A j \in DOMAIN p.log : p.log[j].kind = "keep"
  /\ p.cancelIssued = {}

MappingUnchanged(p) ==
  Has(idMaps, p.ref) => OMapEntries(idMaps[p.ref]) = p.mapped0

\* until the next pass starts, the mapping is the one the pass p started with
MappingAsBefore(p) == DOMAIN passes = {} => MappingUnchanged(p)

\* no two tasks of the snapshot were resolved to the same persistent task
ResolvedApart(p) ==
  \A i \in DOMAIN p.log, j \in DOMAIN p.log :
    (i # j /\ p.log[i].pid # NoId) => p.log[i].pid # p.log[j].pid

\* C35 as stated: a pass that repeats the previous pass of the session on the
\* same snapshot, the store unchanged and every request of the previous pass
\* answered, issues no create, update or cancel and leaves the id mapping as
\* it was.
C35_RepeatedPassIssuesNothing ==
  \A j \in DOMAIN lastDone :
    lastDone[j].repeats =>
      (IssuedNothing(lastDone[j]) /\ MappingAsBefore(lastDone[j]))

\* C35 amended: the repeated pass issues nothing and leaves the mapping as it
\* was when no two tasks of the snapshot resolve to the same persistent task.
C35_RepeatedPassIssuesNothingWhenApart ==
  \A j \in DOMAIN lastDone :
    (lastDone[j].repeats /\ ResolvedApart(lastDone[j])) =>
      (IssuedNothing(lastDone[j]) /\ MappingAsBefore(lastDone[j]))

\* a two-task snapshot of equal normalized content was reconciled twice
\* against a store that held tasks before, and the second pass returned
C35_Witness ==
  /\ lastDone # <<>>
  /\ lastDone[1].repeats
  /\ Len(lastDone[1].todos) = 2
  /\ normalize(lastDone[1].todos[1].content) = normalize(lastDone[1].todos[2].content)
  /\ Len(lastDone[1].log) = 2
  /\ lastDone[1].store0 # <<>>

\* the list request of the pass failed: the store held tasks when the pass
\* started, tasks are never removed from the store, and the pass got none
ListingFailed(p) == p.todos # <<>> /\ p.pc # "list" /\ p.store0 # <<>> /\ p.snap = <<>>

\* C36: a pass whose list request failed issues no create, update or cancel,
\* and when it has returned the session's id mapping is as it was when the
\* pass started.
C36_FailedListingIssuesNothing ==
  /\ \A p \in PassRecords : ListingFailed(p) => IssuedNothing(p)
  /\ \A j \in DOMAIN lastDone :
       (ListingFailed(lastDone[j]) /\ DOMAIN passes = {}) => MappingUnchanged(lastDone[j])

\* ------------------------------- a burst of updates after a first pass
\* the calls of the current debounce window that a later call superseded
SupersededBy(s) ==
  IF Has(syncTimers, s) /\ Has(armedAt, syncTimers[s])
  THEN armedAt[syncTimers[s]].superseded \cup {armedAt[syncTimers[s]].todos}
  ELSE {}

\* onTodoUpdated; the call is on record under the timer it arms
BurstTodoUpdated(s, todos) ==
  /\ TodoUpdatedBody(s, todos)
  /\ armedAt' = MapSet(armedAt, nextTimer,
                       [sid |-> s, todos |-> todos, superseded |-> SupersededBy(s)])
  /\ UNCHANGED <<now, savedAt>>

\* the debounce timer fires with no pass under way; the call that armed it
\* is on record under the pass it starts
BurstSyncFire(t) ==
  /\ DOMAIN passes = {}
  /\ SyncTimerBody(t)
  /\ Has(armedAt, t)
  /\ savedAt' = MapSet(savedAt, nextPass, armedAt[t])
  /\ UNCHANGED <<now, armedAt>>

\* A timer handle that is neither pending nor held in syncTimers is never
\* seen again: the numbers are handed out anew.
TimerHandlesRecycled ==
  /\ DOMAIN timers = {}
  /\ DOMAIN syncTimers = {}
  /\ nextTimer > 1
  /\ nextTimer' = 1
  /\ UNCHANGED timers
  /\ UNCHANGED <<captureVars, sessionVars, transformVars, bufferVars, ghostVars,
                 todoVars, engineVars, clockVars>>

BurstLists ==
  { <<Todo(1, TodoA, "pending")>>,
    <<Todo(1, TodoA, "completed")>>,
    <<Todo(2, TodoB, "pending")>>,
    <<Todo(1, TodoA, "completed"), Todo(2, TodoB, "pending")>> }

NextBurst ==
  \/ \E todos \in BurstLists : BurstTodoUpdated(1, todos)
  \/ \E t \in 1..MaxTimers : BurstSyncFire(t)
  \/ TimerHandlesRecycled
  \/ \E q \in PassIds, ok \in BOOLEAN : PassListed(q, ok)
  \/ \E q \in PassIds, ok \in BOOLEAN : PassUpdated(q, ok)
  \/ \E q \in PassIds, ok \in BOOLEAN : PassCreated(q, ok)
  \/ \E q \in PassIds, ok \in BOOLEAN : PassCancelled(q, ok)

SpecBurst == Init /\ [][NextBurst]_vars

\* the task with ephemeral id e was reported completed by a call of the
\* window that the call behind pass q superseded
ReportedCompleted(q, e) ==
  \E l \in savedAt[q].superseded :
    \E j \in 1..Len(l) : l[j].id = e /\ l[j].status = "completed"

\* C37: the pass that follows a burst issues no cancel for the persistent
\* task of a mapped ephemeral task that the burst first reported completed
\* and then left out of the list.
C37_RemovedAfterCompletionNotCancelled ==
  \A q \in DOMAIN savedAt :
    (q = nextPass - 1 /\ (Has(passes, q) \/ lastDone # <<>>)) =>
      LET p == IF Has(passes, q) THEN passes[q] ELSE lastDone[1]
      IN \A m \in p.mapped0 :
           (ReportedCompleted(q, m[1]) /\ m[1] \notin TodoIdsOf(p.todos)) =>
             m[2] \notin p.cancelIssued

\* cleanupSyncState ran for the session of suspended pass q after the pass
\* had started: the session table no longer holds the idMap the pass works on
CleanedUpSince(q) ==
  \/ ~Has(sessionToPersistent, passes[q].sid)
  \/ sessionToPersistent[passes[q].sid] # passes[q].ref

\* pass q goes on to a create, update or cancel request in this step
IssuesRequest(q) ==
  /\ Has(passes', q)
  /\ [passes'[q] EXCEPT !.cur = 0] # [passes[q] EXCEPT !.cur = 0]
  /\ passes'[q].pc \in {"create", "update", "cancel"}

\* pass q runs in this step and its idMap is written
WritesMapping(q) ==
  /\ ~Has(passes', q) \/ [passes'[q] EXCEPT !.cur = 0] # [passes[q] EXCEPT !.cur = 0]
  /\ Has(idMaps', passes[q].ref)
  /\ idMaps'[passes[q].ref] # idMaps[passes[q].ref]

\* C38: a pass that was suspended at a store call when cleanupSyncState ran
\* for its session issues no create, update or cancel request afterwards and
\* writes no entry into its id mapping.
C38_NoRequestsAfterCleanup ==
  [][\A q \in DOMAIN passes :
       CleanedUpSince(q) => (~IssuesRequest(q) /\ ~WritesMapping(q))]_vars

\* processEvent handled an event in this step (a deletion drops a ledger)
EventProcessed ==
  /\ captureLog' # captureLog
  /\ DOMAIN capturedHashes \subseteq DOMAIN capturedHashes'

\* C39: a candidate whose hash is not in the ledger of its own session key,
\* and not earlier in the same event, is sent to the store, whatever the
\* ledgers of the other session keys hold.
C39_DedupPerSession ==
  [][EventProcessed =>
       LET k == captureLog'.key
           m == captureLog'.memories
       IN \A i \in 1..Len(m) :
            (/\ (Has(capturedHashes, k) => HashOf[m[i]] \notin capturedHashes[k])
             /\ \A j \in 1..(i - 1) : HashOf[m[j]] # HashOf[m[i]]) =>
              storeCalls'[<<k, m[i]>>] = storeCalls[<<k, m[i]>>] + 1]_vars

\* one content was sent to the store for two sessions, and dropped as a
\* duplicate in one of them only after that
C39_Witness ==
  \E c \in Contents :
    /\ storeCalls[<<1, c>>] = 1
    /\ storeCalls[<<2, c>>] = 1
    /\ <<2, c>> \in dropped


\* ------------------------- buffered chat text and session.deletion (part_000)
\* chat messages long enough to be buffered (line 167: `text.length > 100`)
BufferedTextKinds == {"long", "longDirective"}

\* the chat.message hook feeding the shared buffer, the buffer's timer and
\* its onFlush, and the session.deleted handler
NextChatBuffer ==
  \/ \E s \in Sessions, kind \in BufferedTextKinds : ChatMessage(s, kind)
  \/ \E s \in Sessions : EventSessionDeleted(s)
  \/ \E t \in 1..MaxTimers : FlushTimerFire(t)
  \/ \E b \in 1..MaxAdds, outcome \in {"resolved", "rejected"} : OnFlushSettle(b, outcome)

SpecChatBuffer == Init /\ [][NextChatBuffer]_vars

\* the batch handed to onFlush in this step: its texts, joined, are the text
\* of one extract request (lines 29-36)
BatchTaken == Len(batches') > Len(batches)

\* C40: a batch taken while session S is deleted, and has not been named by a
\* hook since, holds no item buffered from S's chat messages.
C40_NoDeletedSessionTextExtracted ==
  [][BatchTaken =>
       LET batch == batches'[Len(batches')]
       IN \A s \in deleted' : \A i \in 1..Len(batch) : batch[i].sid # s]_vars

====
